---- MODULE Spec2Model ----
(***************************************************************************)
(* A model of the PDP-8 assembly analyzer (class Analyzer of               *)
(* server/src/analyzer.ts and the utility functions it imports) and of the *)
(* language server that publishes diagnostics and completions              *)
(* (server/src/server.ts).                                                 *)
(*                                                                         *)
(* A JavaScript string is a sequence of one-character strings, so that     *)
(* trim, split, includes, indexOf, replace, substring, slice and parseInt  *)
(* are computed character by character as the engine computes them.  A     *)
(* document text is the sequence of its lines (the text split at "\n");    *)
(* the empty text is the single empty line.                                *)
(*                                                                         *)
(* Every loop of analyzeCode advances one iteration per step; pc names the *)
(* loop the call is in.  A TypeError raised by a property access on        *)
(* undefined ends the call in pc = "threw".                                *)
(***************************************************************************)
EXTENDS Integers, Sequences, FiniteSets, TLC

VARIABLES
    problemsCountLimit, problemsCount, ram, ramLength, ramPushed, addressToLine,
    duplicatesLabels, unusedLabels, invalidLabels,
    text, strings, lcTable, lc, i, pc,
    internalDiagnostics, diagnostics, containsEND, containsHLT, previousOrg,
    returned,
    documents, published, fileText, globalSettings, completion, events, pending

fields == <<problemsCountLimit, problemsCount, ram, ramLength, ramPushed, addressToLine,
            duplicatesLabels, unusedLabels, invalidLabels>>
locals == <<text, strings, lcTable, lc, i, pc,
            internalDiagnostics, diagnostics, containsEND, containsHLT, previousOrg>>
server == <<documents, published, fileText, globalSettings, completion, events,
            pending>>
vars == <<fields, locals, returned, server>>

\* the Analyzer's fields and the locals of the analyzeCode call, as one record
Machine ==
    [problemsCountLimit |-> problemsCountLimit, problemsCount |-> problemsCount,
     ram |-> ram, ramLength |-> ramLength, ramPushed |-> ramPushed,
     addressToLine |-> addressToLine, duplicatesLabels |-> duplicatesLabels,
     unusedLabels |-> unusedLabels, invalidLabels |-> invalidLabels,
     text |-> text, strings |-> strings, lcTable |-> lcTable, lc |-> lc, i |-> i,
     pc |-> pc, internalDiagnostics |-> internalDiagnostics,
     diagnostics |-> diagnostics, containsEND |-> containsEND,
     containsHLT |-> containsHLT, previousOrg |-> previousOrg]

(***************************************************************************)
(* Bounds of the model.                                                    *)
(***************************************************************************)
MaxLines == 3
MaxRuns == 2
MaxChars == 3
MaxEvents == 3

(***************************************************************************)
(* JavaScript values that are not strings or in-range numbers.             *)
(***************************************************************************)
NaN == -999999
UndefinedNumber == -888888
Undefined == <<"undefined">>
MemorySize == 4096

(***************************************************************************)
(* String primitives.                                                      *)
(***************************************************************************)
Min(S) == CHOOSE x \in S : \A y \in S : x <= y

IsWhiteSpace(c) == c \in {" ", "\t", "\r"}

RECURSIVE TrimStart(_)
TrimStart(s) ==
    IF s # <<>> /\ IsWhiteSpace(Head(s)) THEN TrimStart(Tail(s)) ELSE s

RECURSIVE TrimEnd(_)
TrimEnd(s) ==
    IF s # <<>> /\ IsWhiteSpace(s[Len(s)])
    THEN TrimEnd(SubSeq(s, 1, Len(s) - 1)) ELSE s

Trim(s) == TrimEnd(TrimStart(s))

MatchAt(s, sub, k) ==
    /\ k + Len(sub) - 1 <= Len(s)
    /\ \A j \in 1..Len(sub) : s[k + j - 1] = sub[j]

\* String.prototype.indexOf: 0-based index of the first occurrence, or -1
IndexOf(s, sub) ==
    LET ks == {k \in 1..(Len(s) - Len(sub) + 1) : MatchAt(s, sub, k)}
    IN  IF ks = {} THEN -1 ELSE Min(ks) - 1

Includes(s, sub) == IndexOf(s, sub) # -1

StartsWith(s, sub) == MatchAt(s, sub, 1)

\* String.prototype.split with a non-empty separator
RECURSIVE Split(_, _)
Split(s, sep) ==
    LET k == IndexOf(s, sep)
    IN  IF k = -1 THEN <<s>>
        ELSE <<SubSeq(s, 1, k)>> \o Split(SubSeq(s, k + Len(sep) + 1, Len(s)), sep)

\* String.prototype.replace with a string pattern: the first occurrence only
Replace(s, sub, rep) ==
    LET k == IndexOf(s, sub)
    IN  IF k = -1 THEN s
        ELSE SubSeq(s, 1, k) \o rep \o SubSeq(s, k + Len(sub) + 1, Len(s))

Clamp(n, len) == IF n = NaN \/ n < 0 THEN 0 ELSE IF n > len THEN len ELSE n

\* String.prototype.substring(a, b): bounds clamped, swapped when a > b
Substring(s, a, b) ==
    LET x == Clamp(a, Len(s))
        y == Clamp(b, Len(s))
    IN  IF x <= y THEN SubSeq(s, x + 1, y) ELSE SubSeq(s, y + 1, x)

\* String.prototype.slice(a): a negative index counts from the end
Slice(s, a) ==
    LET x == IF a < 0 THEN (IF Len(s) + a < 0 THEN 0 ELSE Len(s) + a)
             ELSE (IF a > Len(s) THEN Len(s) ELSE a)
    IN  SubSeq(s, x + 1, Len(s))

\* array[k] for a 0-based k: the element, or undefined
At(arr, k) == IF k >= 0 /\ k < Len(arr) THEN arr[k + 1] ELSE Undefined

DigitValue(c) ==
    CASE c = "0" -> 0 [] c = "1" -> 1 [] c = "2" -> 2 [] c = "3" -> 3
      [] c = "4" -> 4 [] c = "5" -> 5 [] c = "6" -> 6 [] c = "7" -> 7
      [] c = "8" -> 8 [] c = "9" -> 9 [] c = "A" -> 10 [] c = "B" -> 11
      [] c = "C" -> 12 [] c = "D" -> 13 [] c = "E" -> 14 [] c = "F" -> 15
      [] OTHER -> 99

RECURSIVE ParseDigits(_, _, _, _)
ParseDigits(s, radix, acc, seen) ==
    IF s # <<>> /\ DigitValue(Head(s)) < radix
    THEN ParseDigits(Tail(s), radix, acc * radix + DigitValue(Head(s)), TRUE)
    ELSE IF seen THEN acc ELSE NaN

\* parseInt(s, radix): leading white space, a sign, then the longest run of
\* digits of the radix; NaN when there is none
ParseInt(s, radix) ==
    LET t == TrimStart(s)
        signed == t # <<>> /\ Head(t) \in {"-", "+"}
        v == ParseDigits(IF signed THEN Tail(t) ELSE t, radix, 0, FALSE)
    IN  IF v = NaN THEN NaN
        ELSE IF signed /\ Head(t) = "-" THEN 0 - v ELSE v

DecimalDigits == <<"0", "1", "2", "3", "4", "5", "6", "7", "8", "9">>

\* Number.prototype.toString of a non-negative integer
RECURSIVE NumToString(_)
NumToString(n) ==
    IF n < 10 THEN <<DecimalDigits[n + 1]>>
    ELSE NumToString(n \div 10) \o <<DecimalDigits[(n % 10) + 1]>>

(***************************************************************************)
(* Map: insertion-ordered, a sequence of [k, v] entries.                   *)
(***************************************************************************)
MapHas(m, k) == \E j \in 1..Len(m) : m[j].k = k

MapGet(m, k, undef) ==
    IF MapHas(m, k) THEN m[CHOOSE j \in 1..Len(m) : m[j].k = k].v ELSE undef

\* set keeps the position of an existing key and appends a new one
MapSet(m, k, v) ==
    IF MapHas(m, k)
    THEN [j \in 1..Len(m) |-> IF m[j].k = k THEN [k |-> k, v |-> v] ELSE m[j]]
    ELSE Append(m, [k |-> k, v |-> v])

MapDelete(m, k) == SelectSeq(m, LAMBDA e : e.k # k)

(***************************************************************************)
(* Vocabulary (utils).                                                     *)
(***************************************************************************)
W(a, b, c) == <<a, b, c>>

ORG == W("O", "R", "G")
END == W("E", "N", "D")
DEC == W("D", "E", "C")
HEX == W("H", "E", "X")
HLT == W("H", "L", "T")
UNK == W("U", "N", "K")
IMA == <<"I">>
SP == <<" ">>
COMMA == <<",">>

MRIKeywords ==
    {W("A","N","D"), W("A","D","D"), W("L","D","A"), W("S","T","A"),
     W("B","U","N"), W("B","S","A"), W("I","S","Z")}

RRIKeywords ==
    {W("C","L","A"), W("C","L","E"), W("C","M","A"), W("C","M","E"),
     W("C","I","R"), W("C","I","L"), W("I","N","C"), W("S","P","A"),
     W("S","N","A"), W("S","Z","A"), W("S","Z","E"), HLT}

IOKeywords ==
    {W("I","N","P"), W("O","U","T"), W("S","K","I"), W("S","K","O"),
     W("I","O","N"), W("I","O","F")}

Keywords == {ORG, END, DEC, HEX} \cup MRIKeywords \cup RRIKeywords \cup IOKeywords

isAValidKeyword(str) == str \in Keywords

isAValidLabel(label) ==
    /\ Len(label) <= 3
    /\ label \notin ({<<>>, IMA} \cup Keywords)

isAValidMRIInstruction(keyword) == keyword \in MRIKeywords

\* a variant with the range of an unsigned 16-bit word
isAValidDecimalValueUnsigned(s) ==
    LET value == ParseInt(Trim(Replace(s, DEC, <<>>)), 10)
    IN  value # NaN /\ value <= 65535 /\ value >= 0

isAValidDecimalValue(s) ==
    LET value == ParseInt(Trim(Replace(s, DEC, <<>>)), 10)
    IN  value # NaN /\ value <= 32767 /\ value >= -32768

isAValidHexadecimalValue(s) ==
    LET str == Trim(Replace(s, HEX, <<>>))
        value == ParseInt(str, 16)
    IN  /\ \A j \in 1..Len(str) : DigitValue(str[j]) < 16 \/ str[j] = "-"
        /\ value # NaN /\ value <= 32767 /\ value >= -32768

validateInstruction(instruction, keywords) ==
    LET temp == Split(Trim(instruction), SP)
    IN  Trim(temp[Len(temp)]) \in keywords

isAValidRRIInstruction(instruction) == validateInstruction(instruction, RRIKeywords)

isAValidIOInstruction(instruction) == validateInstruction(instruction, IOKeywords)

isARRIInstuction(instruction) == \E kw \in RRIKeywords : Includes(instruction, kw)

isAIOInstuction(instruction) == \E kw \in IOKeywords : Includes(instruction, kw)

isAValidAddressValue(address) ==
    LET addressHex == ParseInt(address, 16)
    IN  /\ \A j \in 1..Len(address) : DigitValue(address[j]) < 16
        /\ addressHex # NaN /\ addressHex < 4096 /\ addressHex >= 0

\* a variant that lets a valid address value win over a known label
isAValidAddressByValue(address, lcValue) == ~isAValidAddressValue(address)

\* true for a known label and for an unresolvable operand (both take the
\* lcTable/UNK branch), false for a plain valid address value
isAValidAddress(address, lcValue) ==
    IF lcValue # Undefined THEN TRUE
    ELSE IF isAValidAddressValue(address) THEN FALSE
    ELSE TRUE

IsCommentOrEmpty(str) ==
    \/ StartsWith(str, <<"/">>) \/ StartsWith(str, <<";">>)
    \/ StartsWith(str, <<"#">>) \/ str = <<>>

\* a variant that cuts at the earliest marker of any kind
removeInlineCommentsLineEarliest(line) ==
    LET str == Trim(line)
        marks == {k \in 1..Len(str) : str[k] \in {"/", ";", "#"}}
    IN  IF IsCommentOrEmpty(str) \/ marks = {} THEN line
        ELSE SubSeq(str, 1, Min(marks) - 1)

removeInlineCommentsLine(line) ==
    LET str == Trim(line)
    IN  IF IsCommentOrEmpty(str) THEN line
        ELSE IF Includes(str, <<"/">>) THEN Substring(str, 0, IndexOf(str, <<"/">>))
        ELSE IF Includes(str, <<";">>) THEN Substring(str, 0, IndexOf(str, <<";">>))
        ELSE IF Includes(str, <<"#">>) THEN Substring(str, 0, IndexOf(str, <<"#">>))
        ELSE line

removeInlineComments(t) == [j \in 1..Len(t) |-> removeInlineCommentsLine(t[j])]

(***************************************************************************)
(* The memory image: this.ram.  ram holds the cells assigned by index,     *)
(* ramPushed the index ranges filled with "" by push, ramLength the        *)
(* array's length.                                                         *)
(***************************************************************************)
RamGet(mem, pushed, a) ==
    IF a \in DOMAIN mem THEN mem[a]
    ELSE IF \E r \in pushed : r[1] <= a /\ a <= r[2] THEN <<>>
    ELSE Undefined

Max2(a, b) == IF a >= b THEN a ELSE b

Diagnostic(line, character, severity, message, arg, num) ==
    [line |-> line, character |-> character, severity |-> severity,
     message |-> message, arg |-> arg, num |-> num]

(***************************************************************************)
(* resolveSymbols, first loop: one source line of the lc table walk.       *)
(***************************************************************************)
\* a variant that reads the ORG operand as a decimal number
Pass1OrgTargetDecimal(string, curLc) ==
    LET operand == At(Split(string, SP), 1)
        temp == IF isAValidAddressValue(Trim(IF operand = Undefined THEN <<>> ELSE operand))
                THEN ParseInt(operand, 10) ELSE NaN
    IN  IF temp = NaN THEN curLc ELSE temp

Pass1OrgTarget(string, curLc) ==
    LET operand == At(Split(string, SP), 1)
        temp == IF isAValidAddressValue(Trim(IF operand = Undefined THEN <<>> ELSE operand))
                THEN ParseInt(operand, 16) ELSE NaN
    IN  IF temp = NaN THEN curLc ELSE temp

Pass1Line(line, idx, curLc, table, dups, unused, invalid) ==
    LET string == Trim(line)
        str == Trim(Split(Split(string, COMMA)[1], SP)[1])
        name == Replace(str, COMMA, <<>>)
        same == [ctl |-> "continue", lc |-> curLc, lcTable |-> table,
                 dups |-> dups, unused |-> unused, invalid |-> invalid]
    IN  IF IsCommentOrEmpty(string) THEN same
        ELSE IF str = ORG THEN [same EXCEPT !.lc = Pass1OrgTarget(string, curLc)]
        ELSE IF str = END THEN [same EXCEPT !.ctl = "break"]
        ELSE IF isAValidLabel(str) /\ Includes(line, COMMA) THEN
            LET previousLabel == MapGet(table, name, Undefined)
            IN  [ctl |-> "next", lc |-> curLc + 1,
                 lcTable |-> MapSet(table, name, NumToString(curLc)),
                 dups |-> IF previousLabel # Undefined
                          THEN MapSet(dups, NumToString(curLc), <<name, previousLabel>>)
                          ELSE dups,
                 unused |-> MapSet(unused, name, idx),
                 invalid |-> invalid]
        ELSE IF ~isAValidLabel(str) /\ Includes(line, COMMA) THEN
            [same EXCEPT !.ctl = "next", !.lc = curLc + 1,
                         !.invalid = MapSet(invalid, name, idx)]
        ELSE IF str = <<>> THEN same
        ELSE [same EXCEPT !.ctl = "next", !.lc = curLc + 1]

(***************************************************************************)
(* resolveSymbols, second loop: one source line loaded into the ram.       *)
(***************************************************************************)
\* a variant that stores the operand as it is written
Pass2CellVerbatim(instruction, address, temp, table, idx) ==
    instruction \o SP \o address
    \o (IF \E j \in 1..Len(temp) : temp[j] = IMA THEN SP \o IMA ELSE <<>>)

Pass2Cell(instruction, address, temp, table, idx) ==
    LET lcValue == MapGet(table, address, Undefined)
        ima == IF \E j \in 1..Len(temp) : temp[j] = IMA THEN SP \o IMA ELSE <<>>
        unk == UNK \o <<"-">> \o address \o <<"|">> \o NumToString(idx + 1)
    IN  IF isAValidAddress(address, lcValue)
        THEN instruction \o SP
             \o Replace(address, address, IF lcValue # Undefined THEN lcValue ELSE unk)
             \o ima
        ELSE instruction \o SP
             \o Replace(address, address, NumToString(ParseInt(address, 16)))
             \o ima

\* a variant that never prunes the table
ConsumeLabelNever(unused, address) == unused

\* this.unusedLabels.delete(address)
ConsumeLabel(unused, address) == MapDelete(unused, address)

Pass2Line(line, idx, curLc, table) ==
    LET str == Replace(Trim(line), <<"\r">>, <<>>)
        temp == Split(str, SP)
        labelled == Includes(str, COMMA)
        rawInstruction == At(temp, IF labelled THEN 1 ELSE 0)
        rawAddress == At(temp, IF labelled THEN 2 ELSE 1)
        instruction == Trim(rawInstruction)
        address == Trim(IF rawAddress = Undefined THEN <<>> ELSE rawAddress)
        same == [ctl |-> "continue", lc |-> curLc, write |-> FALSE,
                 cell |-> <<>>, consumed |-> Undefined]
    IN  IF IsCommentOrEmpty(str) THEN same
        ELSE IF rawInstruction = Undefined THEN [same EXCEPT !.ctl = "throw"]
        ELSE IF instruction = ORG THEN
            [same EXCEPT !.lc = IF ParseInt(address, 16) = NaN THEN curLc
                                ELSE ParseInt(address, 16)]
        ELSE IF instruction = END THEN [same EXCEPT !.ctl = "break"]
        ELSE IF isAValidMRIInstruction(instruction) THEN
            [ctl |-> "next", lc |-> curLc + 1, write |-> TRUE,
             cell |-> Pass2Cell(instruction, address, temp, table, idx),
             consumed |-> address]
        ELSE [ctl |-> "next", lc |-> curLc + 1, write |-> TRUE,
              cell |-> str, consumed |-> Undefined]

(***************************************************************************)
(* spellChecking: one source line.                                         *)
(***************************************************************************)
\* a variant that walks on after END
SpellLineThrough(line, idx) ==
    LET trimmed == Trim(line)
        str == Trim(Split(Trim(Split(trimmed, COMMA)[Len(Split(trimmed, COMMA))]), SP)[1])
    IN  IF IsCommentOrEmpty(trimmed) \/ isAValidKeyword(str)
        THEN [ctl |-> "continue", diags |-> <<>>]
        ELSE [ctl |-> "continue",
              diags |-> <<Diagnostic(idx, IndexOf(line, str), "Warning",
                                     "Invalid keyword: ", str, 0)>>]

SpellLine(line, idx) ==
    LET trimmed == Trim(line)
        temp == Split(trimmed, COMMA)
        str == Trim(Split(Trim(temp[Len(temp)]), SP)[1])
    IN  IF IsCommentOrEmpty(trimmed) THEN [ctl |-> "continue", diags |-> <<>>]
        ELSE IF isAValidKeyword(str)
        THEN [ctl |-> IF Includes(str, END) THEN "return" ELSE "continue",
              diags |-> <<>>]
        ELSE [ctl |-> "continue",
              diags |-> <<Diagnostic(idx, IndexOf(line, str), "Warning",
                                     "Invalid keyword: ", str, 0)>>]

(***************************************************************************)
(* syntaxChecking, first control: one source line.                         *)
(***************************************************************************)
IsInstructionLine(line) == Trim(line) # <<>> /\ ~IsCommentOrEmpty(Trim(line))

\* the lines under END that are neither empty nor comments, one diagnostic each
\* a variant that counts every line under END that is not empty
RECURSIVE UnderEndAll(_, _)
UnderEndAll(lines, j) ==
    IF j >= Len(lines) THEN <<>>
    ELSE (IF Trim(lines[j + 1]) # <<>>
          THEN <<Diagnostic(j, 0, "Information",
                            "Instructions under END pseudo-instructions will be ignored",
                            <<>>, 0)>>
          ELSE <<>>) \o UnderEndAll(lines, j + 1)

RECURSIVE UnderEnd(_, _)
UnderEnd(lines, j) ==
    IF j >= Len(lines) THEN <<>>
    ELSE (IF IsInstructionLine(lines[j + 1])
          THEN <<Diagnostic(j, 0, "Information",
                            "Instructions under END pseudo-instructions will be ignored",
                            <<>>, 0)>>
          ELSE <<>>) \o UnderEnd(lines, j + 1)

SyntaxLine(lines, idx) ==
    LET line == lines[idx + 1]
        trimmed == Trim(line)
        temp == Split(trimmed, COMMA)
        str == Trim(temp[Len(temp)])
        tokens == Split(str, SP)
        character == IndexOf(line, str)
        none == [ctl |-> "continue", diags |-> <<>>, end |-> FALSE, hlt |-> FALSE]
        one(severity, message) ==
            [none EXCEPT !.diags = <<Diagnostic(idx, character, severity, message, <<>>, 0)>>]
    IN  IF IsCommentOrEmpty(trimmed) THEN none
        ELSE IF StartsWith(str, ORG) THEN
            IF Trim(Replace(str, ORG, <<>>)) = <<>>
            THEN one("Error", "Missing origin address.")
            ELSE IF At(tokens, 1) = Undefined THEN [none EXCEPT !.ctl = "throw"]
            ELSE IF ~isAValidAddressValue(At(tokens, 1)) \/ Len(tokens) > 2
            THEN one("Error", "Invalid origin address.")
            ELSE none
        ELSE IF StartsWith(str, DEC) /\ ~isAValidDecimalValue(str)
        THEN one("Warning", "Invalid decimal value.")
        ELSE IF StartsWith(str, HEX) /\ ~isAValidHexadecimalValue(str)
        THEN one("Warning", "Invalid hexadecimal value.")
        ELSE IF StartsWith(str, END)
        THEN [ctl |-> "break", diags |-> UnderEnd(lines, idx + 1),
              end |-> TRUE, hlt |-> FALSE]
        ELSE IF StartsWith(str, HLT) THEN [none EXCEPT !.hlt = TRUE]
        ELSE IF isAValidMRIInstruction(tokens[1])
                /\ At(tokens, 2) # IMA /\ At(tokens, 2) # Undefined
        THEN one("Warning", "Invalid IMA keyword.")
        ELSE none

(***************************************************************************)
(* syntaxChecking, second control: one cell of the ram.                    *)
(***************************************************************************)
LineOfAddress(map, a) ==
    IF a \in DOMAIN map THEN map[a] ELSE UndefinedNumber

SyntaxCell(cell, a, map) ==
    LET none == [ctl |-> "next", i |-> a + 1, diags |-> <<>>]
        parts == Split(cell, <<"|">>)
        unkLine == ParseInt(Trim(Replace(At(parts, 1), <<"|">>, <<>>)), 10)
        mapped == IF LineOfAddress(map, a) = UndefinedNumber THEN a
                  ELSE LineOfAddress(map, a)
    IN  IF Includes(cell, ORG)
        THEN (LET jump == ParseInt(Trim(Substring(cell, IndexOf(cell, ORG) + 1, 16)), 10)
              IN  [none EXCEPT !.i = IF jump = NaN THEN NaN ELSE jump + 1])
        ELSE IF Includes(cell, UNK) THEN
            IF At(parts, 1) = Undefined THEN [none EXCEPT !.ctl = "throw"]
            ELSE [none EXCEPT !.diags =
                    <<Diagnostic(IF unkLine = NaN THEN 0 ELSE unkLine - 1, 0, "Warning",
                                 "Unresolved label ",
                                 Substring(cell, IndexOf(cell, <<"-">>) + 1,
                                           IndexOf(cell, <<"|">>)), 0)>>]
        ELSE IF ~isAValidRRIInstruction(cell) /\ isARRIInstuction(cell)
        THEN [none EXCEPT !.diags =
                <<Diagnostic(mapped - 1, 0, "Error",
                             "Invalid RRI instruction syntax.", <<>>, 0)>>]
        ELSE IF ~isAValidIOInstruction(cell) /\ isAIOInstuction(cell)
        THEN [none EXCEPT !.diags =
                <<Diagnostic(mapped - 1, 0, "Error",
                             "Invalid IO instruction syntax.", <<>>, 0)>>]
        ELSE none

(***************************************************************************)
(* logicChecking: one source line of the duplicate-ORG scan.               *)
(***************************************************************************)
\* a variant that keeps the first line seen for each address
LogicOrgLineFirstSeen(line, idx, previous) ==
    LET instruction == Trim(line)
        evaluatedOrgAddress == ParseInt(Trim(Split(instruction, ORG)[2]), 16)
    IN  IF ~Includes(instruction, ORG) THEN [diags |-> <<>>, previousOrg |-> previous]
        ELSE [diags |->
                IF evaluatedOrgAddress # NaN /\ MapHas(previous, evaluatedOrgAddress)
                THEN <<Diagnostic(idx, 0, "Error", "ORG Instructions duplicate at line ",
                                  <<>>, MapGet(previous, evaluatedOrgAddress, UndefinedNumber))>>
                ELSE <<>>,
              previousOrg |-> IF MapHas(previous, evaluatedOrgAddress) THEN previous
                              ELSE MapSet(previous, evaluatedOrgAddress, idx + 1)]

LogicOrgLine(line, idx, previous) ==
    LET instruction == Trim(line)
        evaluatedOrgAddress == ParseInt(Trim(Split(instruction, ORG)[2]), 16)
    IN  IF ~Includes(instruction, ORG) THEN [diags |-> <<>>, previousOrg |-> previous]
        ELSE [diags |->
                IF evaluatedOrgAddress # NaN /\ MapHas(previous, evaluatedOrgAddress)
                THEN <<Diagnostic(idx, 0, "Error", "ORG Instructions duplicate at line ",
                                  <<>>, MapGet(previous, evaluatedOrgAddress, UndefinedNumber))>>
                ELSE <<>>,
              previousOrg |-> MapSet(previous, evaluatedOrgAddress, idx + 1)]

(***************************************************************************)
(* getMemoryAddressContent: "true", "false", or "throw" when the address   *)
(* argument is undefined where a string method is called on it.            *)
(***************************************************************************)
IsLiteral(content) ==
    \/ isAValidDecimalValue(Slice(content, IndexOf(content, DEC)))
    \/ isAValidHexadecimalValue(Slice(content, IndexOf(content, HEX)))

getMemoryAddressContent(mem, pushed, address, isIMA) ==
    LET pointer ==
            IF IndexOf(address, DEC) = -1
            THEN (IF IndexOf(address, HEX) = -1 THEN <<"#">>
                  ELSE Trim(Split(address, HEX)[2]))
            ELSE Trim(Split(address, DEC)[2])
        target ==
            IF isAValidDecimalValue(pointer) THEN RamGet(mem, pushed, ParseInt(pointer, 10))
            ELSE IF isAValidHexadecimalValue(pointer)
            THEN RamGet(mem, pushed, ParseInt(pointer, 16))
            ELSE <<>>
        final(content) ==
            IF content = <<>> THEN "false"
            ELSE IF content = Undefined THEN "throw"
            ELSE IF IsLiteral(content) THEN "true" ELSE "false"
    IN  IF ~isIMA THEN final(address)
        ELSE IF address = Undefined THEN "throw"
        ELSE IF pointer = <<"#">> THEN "false"
        ELSE final(target)

(***************************************************************************)
(* logicChecking: one cell of the memory scan.                             *)
(***************************************************************************)
SkipClass == {W("I","S","Z"), W("S","P","A"), W("S","N","A"), W("S","Z","A"), W("S","Z","E")}

LogicCell(mem, pushed, a, map) ==
    LET cell == RamGet(mem, pushed, a)
        instruction == Trim(Split(cell, SP)[1])
        third == At(Split(Trim(cell), SP), 2)
        label == Trim(IF third = Undefined THEN <<>> ELSE third) = IMA
        line == IF LineOfAddress(map, a) = UndefinedNumber THEN 0
                ELSE LineOfAddress(map, a) - 1
        operand == At(Split(cell, SP), 1)
        content == getMemoryAddressContent(mem, pushed,
                       RamGet(mem, pushed, ParseInt(Trim(operand), 10)), label)
        before1 == RamGet(mem, pushed, a - 1)
        before2 == RamGet(mem, pushed, a - 2)
        none == [ctl |-> "next", diags |-> <<>>]
    IN  IF instruction = <<>> THEN none
        ELSE IF isAValidMRIInstruction(instruction) /\ operand = Undefined
        THEN [none EXCEPT !.ctl = "throw"]
        ELSE IF isAValidMRIInstruction(instruction) /\ content = "throw"
        THEN [none EXCEPT !.ctl = "throw"]
        ELSE IF isAValidMRIInstruction(instruction) /\ content = "false"
        THEN [none EXCEPT !.diags =
                <<Diagnostic(line, 0, "Warning",
                    "The instruction address is pointing to an invalid memory address.",
                    <<>>, 0)>>]
        ELSE IF Includes(instruction, HLT) THEN
            IF before1 = Undefined \/ before2 = Undefined THEN none
            ELSE IF /\ (Includes(before1, W("B","S","A")) \/ Includes(before1, W("B","U","N")))
                    /\ ~(\E kw \in SkipClass : Includes(before2, kw))
            THEN [none EXCEPT !.diags =
                    <<Diagnostic(line, 0, "Warning",
                                 "The HLT instruction can't be reached", <<>>, 0)>>]
            ELSE none
        ELSE none

(***************************************************************************)
(* logicChecking: the duplicate, unused and invalid label reports.         *)
(***************************************************************************)
MaxValue == 999999

DuplicateLabelDiagnostic(entry, map) ==
    LET at == LineOfAddress(map, ParseInt(entry.k, 10))
    IN  Diagnostic(IF at = UndefinedNumber THEN MaxValue ELSE at - 1, 0, "Warning",
                   "Duplicate label: ", entry.v[1],
                   LineOfAddress(map, ParseInt(entry.v[2], 10)))

UnusedLabelDiagnostic(entry) ==
    Diagnostic(entry.v, 0, "Information", "Unused label: ", entry.k, 0)

InvalidLabelDiagnostic(entry) ==
    Diagnostic(entry.v, 0, "Error", "Invalid label: ", entry.k, 0)

LabelDiagnostics(dups, unused, invalid, map) ==
    [j \in 1..Len(dups) |-> DuplicateLabelDiagnostic(dups[j], map)]
    \o [j \in 1..Len(unused) |-> UnusedLabelDiagnostic(unused[j])]
    \o [j \in 1..Len(invalid) |-> InvalidLabelDiagnostic(invalid[j])]

(***************************************************************************)
(* Source lines and texts the model analyses.                              *)
(***************************************************************************)
L_LDA_B == <<"L","D","A"," ","B">>
L_B_DEC_5 == <<"B",","," ","D","E","C"," ","5">>
L_A_HLT == <<"A",","," ","H","L","T">>
L_LOOP_HLT == <<"L","O","O","P",","," ","H","L","T">>
L_END == <<"E","N","D">>
L_ORG_100 == <<"O","R","G"," ","1","0","0">>
L_LDA_FOO == <<"L","D","A"," ","F","O","O">>

L_ORG_HLT == <<"O","R","G",","," ","H","L","T">>
L_LDA_1_I == <<"L","D","A"," ","1"," ","I">>
L_DEC_9000 == <<"D","E","C"," ","9","0","0","0">>
L_HLT == HLT
L_LDA_END == <<"L", "D", "A", " ", "E", "N", "D">>
L_ORG_2000 == <<"O", "R", "G", " ", "2", "0", "0", "0">>
L_DEC_40000 == <<"D", "E", "C", " ", "4", "0", "0", "0", "0">>
L_DEC_32767 == <<"D", "E", "C", " ", "3", "2", "7", "6", "7">>
L_DEC_32768 == <<"D", "E", "C", " ", "3", "2", "7", "6", "8">>
L_DEC_M32768 == <<"D", "E", "C", " ", "-", "3", "2", "7", "6", "8">>
L_DEC_M32769 == <<"D", "E", "C", " ", "-", "3", "2", "7", "6", "9">>
L_DEC_X == <<"D", "E", "C", " ", "X">>
L_DEC_1X == <<"D", "E", "C", " ", "1", "X">>
L_DEC == DEC
\* "HLT", thirteen spaces, "-1ORG": the letters ORG start at index 18
L_HLT_1ORG ==
    <<"H", "L", "T", " ", " ", " ", " ", " ", " ", " ", " ", " ", " ", " ", " ", " ", "-", "1", "O", "R", "G">>
L_XYZ == <<"X", "Y", "Z">>
L_ORG_10G == <<"O", "R", "G", " ", "1", "0", "G">>
L_LDA_A == <<"L", "D", "A", " ", "A">>
L_A_DEC_5 == <<"A", ",", " ", "D", "E", "C", " ", "5">>
L_LDA_A_I == <<"L", "D", "A", " ", "A", " ", "I">>
L_LDA_1 == <<"L", "D", "A", " ", "1">>
L_CLA == <<"C", "L", "A">>
L_SLASH_ORG_100 == <<"/", " ", "O", "R", "G", " ", "1", "0", "0">>
L_HASH_XYZ == <<"#", " ", "X", "Y", "Z">>
L_BLANK == <<" ">>
L_BUN_0 == <<"B", "U", "N", " ", "0">>
L_SZA == <<"S", "Z", "A">>
L_LDA_0100 == <<"L", "D", "A", " ", "0", "1", "0", "0">>
L_ORG_FFF == <<"O", "R", "G", " ", "F", "F", "F">>
L_LDA_BAR_9 == <<"L", "D", "A", " ", "|", "9">>
L_CLA_1 == <<"C", "L", "A", " ", "1">>

Lines ==
    {L_LDA_B, L_B_DEC_5, L_A_HLT, L_LOOP_HLT, L_END, L_ORG_100, L_LDA_FOO, L_ORG_HLT}

EmptyText == << <<>> >>

TextsOver(S, n) == UNION {[1..k -> S] : k \in 1..n} \cup {EmptyText}

Texts == TextsOver(Lines, MaxLines)

\* the texts analysed one after the other on one Analyzer
RerunTexts ==
    {EmptyText, <<L_A_HLT>>, <<L_HLT, L_END>>, <<L_LDA_B, L_B_DEC_5>>,
     <<L_LDA_1_I, L_DEC_9000>>}

\* lines with operands that are neither labels nor addresses, ORG operands
\* and a misspelt keyword
OperandLines ==
    {L_LDA_END, L_LDA_FOO, L_ORG_2000, L_ORG_10G, L_ORG_100, L_HLT, L_END, L_XYZ}

OperandTexts == TextsOver(OperandLines, MaxLines)

\* memory-reference lines: the operand is a label whose name is also an
\* address value, a plain address value, or neither; with and without the
\* indirect marker; next to a literal and to an instruction
ReferenceLines ==
    {L_LDA_A, L_A_DEC_5, L_LDA_A_I, L_LDA_1, L_LDA_1_I, L_LDA_FOO, L_CLA}

ReferenceTexts == TextsOver(ReferenceLines, MaxLines)

\* whole-line comments and a blank line among instruction lines, an ORG with
\* an invalid operand, a misspelt keyword and END
CommentLines ==
    {L_SLASH_ORG_100, L_HASH_XYZ, L_BLANK, L_ORG_100, L_ORG_10G, L_XYZ, L_END}

CommentTexts == TextsOver(CommentLines, MaxLines)

\* HLT, with and without a label, after a jump, a skip and other
\* instructions, and an origin at the last address of the memory
HaltLines == {L_HLT, L_A_HLT, L_BUN_0, L_SZA, L_CLA, L_LDA_0100, L_ORG_FFF}

HaltTexts == TextsOver(HaltLines, MaxLines)

\* lines whose diagnostics are positioned through the address-to-line map
\* or through the line number kept in the cell: a label declared twice, an
\* ORG that the two walks read differently, an operand with a bar, a
\* register-reference instruction with an operand
PositionLines == {L_A_HLT, L_ORG_10G, L_LDA_BAR_9, L_CLA_1, L_HLT, L_END}

PositionTexts == TextsOver(PositionLines, MaxLines)

\* the characters and the lines given to the line normalizer
NormalizerChars == {" ", "A", "/", ";", "#"}

NormalizerLines == UNION {[1..k -> NormalizerChars] : k \in 0..MaxChars}

NormalizerTexts ==
    {<<l>> : l \in NormalizerLines}
    \cup {<<l, k>> : l \in NormalizerLines, k \in {<<>>, <<" ", "A", ";", "/">>}}

\* DEC lines: in range, at both ends of the range, out of range, without a
\* number
DecimalLines ==
    {L_DEC_40000, L_DEC_32767, L_DEC_32768, L_DEC_M32768, L_DEC_M32769,
     L_DEC_X, L_DEC_1X, L_DEC}

DecimalTexts == TextsOver(DecimalLines, MaxLines)

\* lines whose cell carries the letters ORG past index 16
CursorLines == {L_HLT_1ORG, L_HLT, L_END, L_ORG_100, L_LDA_B, L_B_DEC_5}

CursorTexts == TextsOver(CursorLines, MaxLines)

Limits == {1, 3, 100}

(***************************************************************************)
(* The server before its first event.                                      *)
(***************************************************************************)
Uris == {"a.asm", "b.asm"}

\* what the client holds for a document: nothing, or the last list sent
NothingSent == [sent |-> FALSE, diagnostics |-> <<>>]

Sent(diags) == [sent |-> TRUE, diagnostics |-> diags]

NoCompletion ==
    [uri |-> "none", line |-> 0, character |-> 0, threw |-> FALSE, items |-> <<>>]

\* defaultSettings.maxNumberOfProblems
DefaultLimit == 100

ServerLimits == {3, DefaultLimit}

\* a program without findings, two texts with findings, and a text whose
\* analysis ends in an exception
ServerTexts ==
    {<<L_LDA_B, L_HLT, L_B_DEC_5, L_END>>, <<L_A_HLT>>, <<L_LDA_B, L_B_DEC_5>>,
     <<L_LDA_FOO>>}

ServerStarted ==
    /\ documents = <<>>
    /\ published = [uri \in Uris |-> NothingSent]
    /\ fileText = "none"
    /\ globalSettings = DefaultLimit
    /\ completion = NoCompletion
    /\ events = 0
    /\ pending = <<>>

(***************************************************************************)
(* The Analyzer after construction.                                        *)
(***************************************************************************)
Constructed(limit) ==
    [problemsCountLimit |-> limit, problemsCount |-> 0,
     ram |-> <<>>, ramLength |-> MemorySize, ramPushed |-> {<<0, MemorySize - 1>>},
     addressToLine |-> <<>>, duplicatesLabels |-> <<>>,
     unusedLabels |-> <<>>, invalidLabels |-> <<>>,
     text |-> EmptyText, strings |-> <<>>, lcTable |-> <<>>, lc |-> 0, i |-> 0,
     pc |-> "idle", internalDiagnostics |-> <<>>,
     diagnostics |-> <<>>, containsEND |-> FALSE,
     containsHLT |-> FALSE, previousOrg |-> <<>>]

Init ==
    /\ problemsCountLimit \in Limits
    /\ problemsCount = 0
    /\ ram = <<>>
    /\ ramLength = MemorySize
    /\ ramPushed = {<<0, MemorySize - 1>>}
    /\ addressToLine = <<>>
    /\ duplicatesLabels = <<>>
    /\ unusedLabels = <<>>
    /\ invalidLabels = <<>>
    /\ text = EmptyText
    /\ strings = <<>>
    /\ lcTable = <<>>
    /\ lc = 0
    /\ i = 0
    /\ pc = "idle"
    /\ internalDiagnostics = <<>>
    /\ diagnostics = <<>>
    /\ containsEND = FALSE
    /\ containsHLT = FALSE
    /\ previousOrg = <<>>
    /\ returned = <<>>
    /\ ServerStarted

HasBudget(m) == m.problemsCount < m.problemsCountLimit - 1

\* an uncaught TypeError: the call ends without a result
Thrown(m) == [m EXCEPT !.pc = "threw"]

Emit(m, diags) ==
    [m EXCEPT !.internalDiagnostics = @ \o diags,
              !.problemsCount = @ + Len(diags)]

\* a variant that puts the list of a pass in front of the earlier ones
ConcatInFront(m) ==
    [m EXCEPT !.diagnostics = m.internalDiagnostics \o @,
              !.internalDiagnostics = <<>>]

\* a checking pass returns its list and analyzeCode concatenates it
Concat(m) ==
    [m EXCEPT !.diagnostics = @ \o m.internalDiagnostics,
              !.internalDiagnostics = <<>>]

(***************************************************************************)
(* analyzeCode(text): reset, the early return on the empty text, the       *)
(* normalisation and the prologue of resolveSymbols.                       *)
(***************************************************************************)
analyzeCodeStart(m, t) ==
    IF t = EmptyText
    THEN [m EXCEPT !.text = t, !.diagnostics = <<>>, !.problemsCount = 0,
                   !.pc = "done"]
    ELSE [m EXCEPT !.text = t, !.diagnostics = <<>>, !.problemsCount = 0,
                   !.strings = removeInlineComments(t),
                   !.lcTable = <<>>, !.lc = 0, !.i = 0,
                   !.ramPushed = @ \cup {<<m.ramLength, m.ramLength + MemorySize - 1>>},
                   !.ramLength = @ + MemorySize,
                   !.pc = "pass1"]

resolveSymbolsPass1(m) ==
    LET r == Pass1Line(m.strings[m.i + 1], m.i, m.lc, m.lcTable,
                       m.duplicatesLabels, m.unusedLabels, m.invalidLabels)
    IN  IF m.i < Len(m.strings) /\ r.ctl # "break"
        THEN [m EXCEPT !.i = @ + 1, !.lc = r.lc, !.lcTable = r.lcTable,
                       !.duplicatesLabels = r.dups, !.unusedLabels = r.unused,
                       !.invalidLabels = r.invalid]
        ELSE [m EXCEPT !.i = 0, !.lc = 0, !.pc = "pass2"]

resolveSymbolsPass2(m) ==
    LET r == Pass2Line(m.strings[m.i + 1], m.i, m.lc, m.lcTable)
    IN  IF m.i < Len(m.strings) /\ r.ctl = "throw" THEN Thrown(m)
        ELSE IF m.i < Len(m.strings) /\ r.ctl # "break"
        THEN [m EXCEPT
                !.i = @ + 1,
                !.lc = r.lc,
                !.ram = IF r.write THEN (m.lc :> r.cell) @@ @ ELSE @,
                !.ramLength = IF r.write THEN Max2(@, m.lc + 1) ELSE @,
                !.addressToLine = IF r.write THEN (m.lc :> (m.i + 1)) @@ @ ELSE @,
                !.unusedLabels = ConsumeLabel(@, r.consumed)]
        ELSE [m EXCEPT !.i = 0, !.pc = "spell", !.internalDiagnostics = <<>>]

spellChecking(m) ==
    LET r == SpellLine(m.strings[m.i + 1], m.i)
    IN  IF m.i < Len(m.strings) /\ HasBudget(m) /\ r.ctl # "return"
        THEN [Emit(m, r.diags) EXCEPT !.i = @ + 1]
        ELSE [Concat(m) EXCEPT !.i = 0, !.pc = "syntax",
                               !.containsEND = FALSE, !.containsHLT = FALSE]

syntaxCheckingSource(m) ==
    LET r == SyntaxLine(m.strings, m.i)
    IN  IF m.i < Len(m.strings) /\ HasBudget(m) /\ r.ctl = "throw" THEN Thrown(m)
        ELSE IF m.i < Len(m.strings) /\ HasBudget(m)
        THEN [Emit(m, r.diags) EXCEPT
                !.i = @ + 1,
                !.containsEND = (@ \/ r.end),
                !.containsHLT = (@ \/ r.hlt),
                !.pc = IF r.ctl = "break" THEN "missing" ELSE @]
        ELSE [m EXCEPT !.pc = "missing"]

\* a variant that reports a missing END whatever the budget
MissingEndUngated(m) ==
    IF ~m.containsEND
    THEN Emit(m, <<Diagnostic(Len(m.strings) - 1, 0, "Error",
                              "Missing END instruction.", <<>>, 0)>>)
    ELSE m

MissingEnd(m) ==
    IF ~m.containsEND /\ HasBudget(m)
    THEN Emit(m, <<Diagnostic(Len(m.strings) - 1, 0, "Error",
                              "Missing END instruction.", <<>>, 0)>>)
    ELSE m

MissingHlt(m) ==
    IF ~m.containsHLT /\ HasBudget(m)
    THEN Emit(m, <<Diagnostic(Len(m.strings) - 1, 0, "Error",
                              "Missing HLT instruction will generate an infinite-loop.",
                              <<>>, 0)>>)
    ELSE m

\* the two checks after the first loop: Missing END, then Missing HLT
syntaxCheckingMissing(m) ==
    [MissingHlt(MissingEnd(m)) EXCEPT !.i = 0, !.pc = "memory"]

\* the next index above a that holds an assigned cell, or the end of the scan
NextWritten(mem, a) ==
    LET above == {b \in DOMAIN mem : b > a /\ b < MemorySize}
    IN  IF above = {} THEN MemorySize ELSE Min(above)

syntaxCheckingMemory(m) ==
    LET cell == RamGet(m.ram, m.ramPushed, m.i)
        inside == m.i # NaN /\ m.i < MemorySize
        r == SyntaxCell(cell, m.i, m.addressToLine)
    IN  IF inside /\ cell = Undefined THEN Thrown(m)
        ELSE IF inside /\ ~Includes(cell, END) /\ r.ctl = "throw" THEN Thrown(m)
        ELSE IF inside /\ ~Includes(cell, END)
        THEN [Emit(m, r.diags) EXCEPT
                !.i = IF cell = <<>> THEN NextWritten(m.ram, m.i) ELSE r.i]
        ELSE [Concat(m) EXCEPT !.i = 0, !.pc = "orgs", !.previousOrg = <<>>]

logicCheckingOrg(m) ==
    LET r == LogicOrgLine(m.strings[m.i + 1], m.i, m.previousOrg)
    IN  IF m.i < Len(m.strings)
        THEN [Emit(m, r.diags) EXCEPT !.i = @ + 1, !.previousOrg = r.previousOrg]
        ELSE [m EXCEPT !.i = 0, !.pc = "cells"]

logicCheckingMemory(m) ==
    LET cell == RamGet(m.ram, m.ramPushed, m.i)
        inside == m.i < MemorySize /\ ~Includes(Trim(cell), END) /\ HasBudget(m)
        r == LogicCell(m.ram, m.ramPushed, m.i, m.addressToLine)
    IN  IF inside /\ r.ctl = "throw" THEN Thrown(m)
        ELSE IF inside
        THEN [Emit(m, r.diags) EXCEPT
                !.i = IF cell = <<>> THEN NextWritten(m.ram, m.i) ELSE @ + 1]
        ELSE [m EXCEPT !.pc = "labels"]

\* a variant whose label reports stop with the budget
logicCheckingLabelsGated(m) ==
    IF HasBudget(m)
    THEN [Concat([m EXCEPT !.internalDiagnostics =
                    @ \o LabelDiagnostics(m.duplicatesLabels, m.unusedLabels,
                                          m.invalidLabels, m.addressToLine)])
          EXCEPT !.pc = "done"]
    ELSE [Concat(m) EXCEPT !.pc = "done"]

\* the label reports, then analyzeCode returns the concatenated list
logicCheckingLabels(m) ==
    [Concat([m EXCEPT !.internalDiagnostics =
                @ \o LabelDiagnostics(m.duplicatesLabels, m.unusedLabels,
                                      m.invalidLabels, m.addressToLine)])
     EXCEPT !.pc = "done"]

Running(m) == m.pc \notin {"idle", "done", "threw"}

StepOf(m) ==
    CASE m.pc = "pass1" -> resolveSymbolsPass1(m)
      [] m.pc = "pass2" -> resolveSymbolsPass2(m)
      [] m.pc = "spell" -> spellChecking(m)
      [] m.pc = "syntax" -> syntaxCheckingSource(m)
      [] m.pc = "missing" -> syntaxCheckingMissing(m)
      [] m.pc = "memory" -> syntaxCheckingMemory(m)
      [] m.pc = "orgs" -> logicCheckingOrg(m)
      [] m.pc = "cells" -> logicCheckingMemory(m)
      [] m.pc = "labels" -> logicCheckingLabels(m)

\* the whole call, from the prologue to its return or its exception
RECURSIVE RunToEnd(_)
RunToEnd(m) == IF Running(m) THEN RunToEnd(StepOf(m)) ELSE m

\* what the caller of analyzeCode gets: a list, or an exception
Outcome(m) ==
    [text |-> m.text, threw |-> m.pc = "threw",
     diagnostics |-> IF m.pc = "threw" THEN <<>> ELSE m.diagnostics]

analyzeCode(m, t) == Outcome(RunToEnd(analyzeCodeStart(m, t)))

(***************************************************************************)
(* Actions: the start of a call, and one step of each loop.                *)
(***************************************************************************)
\* the fields and the locals take the values of m
Assign(m) ==
    /\ problemsCountLimit' = m.problemsCountLimit
    /\ problemsCount' = m.problemsCount
    /\ ram' = m.ram
    /\ ramLength' = m.ramLength
    /\ ramPushed' = m.ramPushed
    /\ addressToLine' = m.addressToLine
    /\ duplicatesLabels' = m.duplicatesLabels
    /\ unusedLabels' = m.unusedLabels
    /\ invalidLabels' = m.invalidLabels
    /\ text' = m.text
    /\ strings' = m.strings
    /\ lcTable' = m.lcTable
    /\ lc' = m.lc
    /\ i' = m.i
    /\ pc' = m.pc
    /\ internalDiagnostics' = m.internalDiagnostics
    /\ diagnostics' = m.diagnostics
    /\ containsEND' = m.containsEND
    /\ containsHLT' = m.containsHLT
    /\ previousOrg' = m.previousOrg

Becomes(m) ==
    /\ Assign(m)
    /\ returned' = IF Running(m) THEN returned ELSE Append(returned, Outcome(m))
    /\ UNCHANGED server

AnalyzeCode(texts, runs) ==
    /\ ~Running(Machine)
    /\ Len(returned) < runs
    /\ \E t \in texts : \E m \in {analyzeCodeStart(Machine, t)} : Becomes(m)

ResolvePass1Step ==
    /\ pc = "pass1"
    /\ \E m \in {resolveSymbolsPass1(Machine)} : Becomes(m)

ResolvePass2Step ==
    /\ pc = "pass2"
    /\ \E m \in {resolveSymbolsPass2(Machine)} : Becomes(m)

SpellCheckingStep ==
    /\ pc = "spell"
    /\ \E m \in {spellChecking(Machine)} : Becomes(m)

SyntaxSourceStep ==
    /\ pc = "syntax"
    /\ \E m \in {syntaxCheckingSource(Machine)} : Becomes(m)

SyntaxMissingStep ==
    /\ pc = "missing"
    /\ \E m \in {syntaxCheckingMissing(Machine)} : Becomes(m)

SyntaxMemoryStep ==
    /\ pc = "memory"
    /\ \E m \in {syntaxCheckingMemory(Machine)} : Becomes(m)

LogicOrgStep ==
    /\ pc = "orgs"
    /\ \E m \in {logicCheckingOrg(Machine)} : Becomes(m)

LogicMemoryStep ==
    /\ pc = "cells"
    /\ \E m \in {logicCheckingMemory(Machine)} : Becomes(m)

LogicLabelsStep ==
    /\ pc = "labels"
    /\ \E m \in {logicCheckingLabels(Machine)} : Becomes(m)

Steps ==
    \/ ResolvePass1Step
    \/ ResolvePass2Step
    \/ SpellCheckingStep
    \/ SyntaxSourceStep
    \/ SyntaxMissingStep
    \/ SyntaxMemoryStep
    \/ LogicOrgStep
    \/ LogicMemoryStep
    \/ LogicLabelsStep

\* one call on a freshly constructed Analyzer
AnalyzeFresh == AnalyzeCode(Texts, 1)

Next == AnalyzeFresh \/ Steps

Spec == Init /\ [][Next]_vars

\* several calls, one after the other, on the same Analyzer
AnalyzeAgain == AnalyzeCode(RerunTexts, MaxRuns)

NextRerun == AnalyzeAgain \/ Steps

SpecRerun == Init /\ [][NextRerun]_vars

\* one call on a fresh Analyzer, on the texts of DecimalTexts
AnalyzeDecimals == AnalyzeCode(DecimalTexts, 1)

NextDecimals == AnalyzeDecimals \/ Steps

SpecDecimals == Init /\ [][NextDecimals]_vars

\* one call on a fresh Analyzer, on the texts of CursorTexts
AnalyzeCursor == AnalyzeCode(CursorTexts, 1)

NextCursor == AnalyzeCursor \/ Steps

SpecCursor == Init /\ [][NextCursor]_vars

\* removeInlineComments alone, applied to a text drawn at the start
InitNormalizer ==
    /\ problemsCountLimit = 100
    /\ problemsCount = 0
    /\ ram = <<>>
    /\ ramLength = MemorySize
    /\ ramPushed = {<<0, MemorySize - 1>>}
    /\ addressToLine = <<>>
    /\ duplicatesLabels = <<>>
    /\ unusedLabels = <<>>
    /\ invalidLabels = <<>>
    /\ text \in NormalizerTexts
    /\ strings = <<>>
    /\ lcTable = <<>>
    /\ lc = 0
    /\ i = 0
    /\ pc = "idle"
    /\ internalDiagnostics = <<>>
    /\ diagnostics = <<>>
    /\ containsEND = FALSE
    /\ containsHLT = FALSE
    /\ previousOrg = <<>>
    /\ returned = <<>>
    /\ ServerStarted

RemoveInlineComments ==
    /\ pc = "idle"
    /\ strings' = removeInlineComments(text)
    /\ pc' = "normalized"
    /\ UNCHANGED <<fields, text, lcTable, lc, i, internalDiagnostics, diagnostics,
                   containsEND, containsHLT, previousOrg, returned, server>>

NextNormalizer == RemoveInlineComments

SpecNormalizer == InitNormalizer /\ [][NextNormalizer]_vars

\* one call on a fresh Analyzer, on the texts of OperandTexts
AnalyzeOperands == AnalyzeCode(OperandTexts, 1)

NextOperands == AnalyzeOperands \/ Steps

SpecOperands == Init /\ [][NextOperands]_vars

\* one call on a fresh Analyzer, on the texts of ReferenceTexts
AnalyzeReferences == AnalyzeCode(ReferenceTexts, 1)

NextReferences == AnalyzeReferences \/ Steps

SpecReferences == Init /\ [][NextReferences]_vars

\* one call on a fresh Analyzer, on the texts of CommentTexts
AnalyzeComments == AnalyzeCode(CommentTexts, 1)

NextComments == AnalyzeComments \/ Steps

SpecComments == Init /\ [][NextComments]_vars

\* one call on a fresh Analyzer, on the texts of HaltTexts
AnalyzeHalts == AnalyzeCode(HaltTexts, 1)

NextHalts == AnalyzeHalts \/ Steps

SpecHalts == Init /\ [][NextHalts]_vars

\* one call on a fresh Analyzer, on the texts of PositionTexts
AnalyzePositions == AnalyzeCode(PositionTexts, 1)

NextPositions == AnalyzePositions \/ Steps

SpecPositions == Init /\ [][NextPositions]_vars

(***************************************************************************)
(* The language server (server/src/server.ts).  It analyses with its own   *)
(* copies of the utility functions and of the passes, on the module-level  *)
(* variables problemsCount, problemsCountLimit, ram and addressToLine.     *)
(* A handler runs to its end before the next event is taken.               *)
(***************************************************************************)
isAValidHexadecimalValueServer(s) ==
    LET str == Trim(Replace(s, HEX, <<>>))
        value == ParseInt(str, 16)
    IN  /\ \A j \in 1..Len(str) : DigitValue(str[j]) < 16
        /\ value # NaN /\ value <= 32767 /\ value >= -32768

isAValidRRIInstructionServer(instruction) == instruction \in RRIKeywords

isAValidIOInstructionServer(instruction) == instruction \in IOKeywords

\* resolveSymbols of the server, first loop: one source line
Pass1LineServer(line, curLc, table) ==
    LET string == Trim(line)
        str == Trim(Split(Split(string, COMMA)[1], SP)[1])
        same == [ctl |-> "continue", lc |-> curLc, lcTable |-> table]
    IN  IF IsCommentOrEmpty(string) THEN same
        ELSE IF str = ORG THEN [same EXCEPT !.lc = Pass1OrgTarget(string, curLc)]
        ELSE IF str = END THEN [same EXCEPT !.ctl = "break"]
        ELSE IF str # <<>> /\ Includes(line, COMMA)
        THEN [ctl |-> "next", lc |-> curLc + 1,
              lcTable |-> MapSet(table, Replace(str, COMMA, <<>>), NumToString(curLc))]
        ELSE IF str = <<>> THEN same
        ELSE [same EXCEPT !.ctl = "next", !.lc = curLc + 1]

\* resolveSymbols of the server, second loop: one source line
Pass2LineServer(line, idx, curLc, table) ==
    LET str == Replace(Trim(line), <<"\r">>, <<>>)
        temp == Split(str, SP)
        instruction == Trim(temp[IF Len(temp) > 2 THEN 2 ELSE 1])
        address == Trim(temp[IF Len(temp) > 3 THEN Len(temp) - 1 ELSE Len(temp)])
        lcValue == MapGet(table, address, Undefined)
        unk == UNK \o <<"-">> \o address \o <<"|">> \o NumToString(idx + 1)
        same == [ctl |-> "continue", lc |-> curLc, write |-> FALSE, cell |-> <<>>]
    IN  IF IsCommentOrEmpty(str) THEN same
        ELSE IF instruction = ORG THEN
            [same EXCEPT !.lc = IF ParseInt(address, 16) = NaN THEN curLc
                                ELSE ParseInt(address, 16)]
        ELSE IF instruction = END THEN [same EXCEPT !.ctl = "break"]
        ELSE IF isAValidMRIInstruction(instruction) THEN
            [ctl |-> "next", lc |-> curLc + 1, write |-> TRUE,
             cell |-> IF isAValidAddress(address, lcValue)
                      THEN Replace(str, address,
                                   IF lcValue # Undefined THEN lcValue ELSE unk)
                      ELSE Replace(str, address, NumToString(ParseInt(address, 16)))]
        ELSE [ctl |-> "next", lc |-> curLc + 1, write |-> TRUE, cell |-> str]

\* every non-empty line under END, comments included, one diagnostic each
RECURSIVE UnderEndServer(_, _)
UnderEndServer(lines, j) ==
    IF j >= Len(lines) THEN <<>>
    ELSE (IF Trim(lines[j + 1]) # <<>>
          THEN <<Diagnostic(j, 0, "Information",
                            "Instructions under END pseudo-instructions will be ignored",
                            <<>>, 0)>>
          ELSE <<>>) \o UnderEndServer(lines, j + 1)

\* syntaxChecking of the server, first control: one source line
SyntaxLineServer(lines, idx) ==
    LET line == lines[idx + 1]
        trimmed == Trim(line)
        temp == Split(trimmed, COMMA)
        str == Trim(temp[Len(temp)])
        tokens == Split(str, SP)
        character == IndexOf(line, str)
        none == [ctl |-> "continue", diags |-> <<>>, end |-> FALSE, hlt |-> FALSE]
        one(severity, message) ==
            [none EXCEPT !.diags = <<Diagnostic(idx, character, severity, message, <<>>, 0)>>]
    IN  IF IsCommentOrEmpty(trimmed) THEN none
        ELSE IF StartsWith(str, ORG) THEN
            IF Trim(Replace(str, ORG, <<>>)) = <<>>
            THEN one("Error", "Missing origin address.")
            ELSE IF At(tokens, 1) = Undefined THEN [none EXCEPT !.ctl = "throw"]
            ELSE IF ~isAValidAddressValue(At(tokens, 1)) \/ Len(tokens) > 2
            THEN one("Error", "Invalid origin address.")
            ELSE none
        ELSE IF StartsWith(str, DEC) /\ ~isAValidDecimalValue(str)
        THEN one("Warning", "Invalid decimal value.")
        ELSE IF StartsWith(str, HEX) /\ ~isAValidHexadecimalValueServer(str)
        THEN one("Warning", "Invalid hexadecimal value.")
        ELSE IF StartsWith(str, END)
        THEN [ctl |-> "break", diags |-> UnderEndServer(lines, idx + 1),
              end |-> TRUE, hlt |-> FALSE]
        ELSE IF StartsWith(str, HLT) THEN [none EXCEPT !.hlt = TRUE]
        ELSE IF isAValidMRIInstruction(tokens[1])
                /\ At(tokens, 2) # IMA /\ At(tokens, 2) # Undefined
        THEN one("Warning", "Invalid IMA keyword.")
        ELSE none

\* syntaxChecking of the server, second control: one cell of the ram
SyntaxCellServer(cell, a, map) ==
    LET none == [ctl |-> "next", i |-> a + 1, diags |-> <<>>]
        parts == Split(cell, <<"|">>)
        unkLine == ParseInt(Trim(Replace(At(parts, 1), <<"|">>, <<>>)), 10)
        mapped == IF LineOfAddress(map, a) = UndefinedNumber THEN a
                  ELSE LineOfAddress(map, a)
    IN  IF Includes(cell, ORG)
        THEN (LET jump == ParseInt(Trim(Substring(cell, IndexOf(cell, ORG) + 1, 16)), 10)
              IN  [none EXCEPT !.i = IF jump = NaN THEN NaN ELSE jump + 1])
        ELSE IF Includes(cell, UNK) THEN
            IF At(parts, 1) = Undefined THEN [none EXCEPT !.ctl = "throw"]
            ELSE [none EXCEPT !.diags =
                    <<Diagnostic(IF unkLine = NaN THEN 0 ELSE unkLine - 1, 0, "Warning",
                                 "Unresolved label ",
                                 Substring(cell, IndexOf(cell, <<"-">>) + 1,
                                           IndexOf(cell, <<"|">>)), 0)>>]
        ELSE IF ~isAValidRRIInstructionServer(cell) /\ isARRIInstuction(cell)
        THEN [none EXCEPT !.diags =
                <<Diagnostic(mapped - 1, 0, "Error",
                             "Invalid RRI instruction syntax.", <<>>, 0)>>]
        ELSE IF ~isAValidIOInstructionServer(cell) /\ isAIOInstuction(cell)
        THEN [none EXCEPT !.diags =
                <<Diagnostic(mapped - 1, 0, "Error",
                             "Invalid IO instruction syntax.", <<>>, 0)>>]
        ELSE none

IsLiteralServer(content) ==
    \/ isAValidDecimalValue(Slice(content, IndexOf(content, DEC)))
    \/ isAValidHexadecimalValueServer(Slice(content, IndexOf(content, HEX)))

\* getMemoryAddressContent of the server: "true", "false", or "throw" when a
\* string method is called on undefined
getMemoryAddressContentServer(mem, pushed, address, isIMA) ==
    LET second == At(Split(address, SP), 1)
        final(content) ==
            IF content = Undefined THEN "throw"
            ELSE IF IsLiteralServer(content) THEN "true" ELSE "false"
    IN  IF address = Undefined THEN "throw"
        ELSE IF ~isIMA THEN final(address)
        ELSE IF isAValidDecimalValue(address)
        THEN (IF second = Undefined THEN "throw"
              ELSE final(RamGet(mem, pushed, ParseInt(Trim(second), 10))))
        ELSE IF isAValidHexadecimalValueServer(address)
        THEN (IF second = Undefined THEN "throw"
              ELSE final(RamGet(mem, pushed, ParseInt(Trim(second), 16))))
        ELSE final(<<>>)

\* logicChecking of the server: one cell of the memory scan
LogicCellServer(mem, pushed, a, map) ==
    LET cell == RamGet(mem, pushed, a)
        instruction == Trim(Split(cell, SP)[1])
        line == IF LineOfAddress(map, a) = UndefinedNumber THEN 0
                ELSE LineOfAddress(map, a) - 1
        operand == At(Split(cell, SP), 1)
        content == getMemoryAddressContentServer(mem, pushed,
                       RamGet(mem, pushed, ParseInt(Trim(operand), 10)),
                       Includes(instruction, IMA))
        before1 == RamGet(mem, pushed, a - 1)
        before2 == RamGet(mem, pushed, a - 2)
        none == [ctl |-> "next", diags |-> <<>>]
    IN  IF instruction = <<>> THEN none
        ELSE IF isAValidMRIInstruction(instruction) /\ operand = Undefined
        THEN [none EXCEPT !.ctl = "throw"]
        ELSE IF isAValidMRIInstruction(instruction) /\ content = "throw"
        THEN [none EXCEPT !.ctl = "throw"]
        ELSE IF isAValidMRIInstruction(instruction) /\ content = "false"
        THEN [none EXCEPT !.diags =
                <<Diagnostic(line, 0, "Warning",
                    "The instruction address is pointing to an invalid memory address.",
                    <<>>, 0)>>]
        ELSE IF Includes(instruction, HLT) THEN
            IF before1 = Undefined \/ before2 = Undefined THEN none
            ELSE IF /\ (Includes(before1, W("B","S","A")) \/ Includes(before1, W("B","U","N")))
                    /\ ~(\E kw \in SkipClass : Includes(before2, kw))
            THEN [none EXCEPT !.diags =
                    <<Diagnostic(line, 0, "Warning",
                                 "The HLT instruction can't be reached", <<>>, 0)>>]
            ELSE none
        ELSE none

\* analyzeCode of the server up to the first loop: the reset of the counter,
\* the early return on the empty text, the normalisation, and the prologue
\* of resolveSymbols, which builds a new ram and a new addressToLine
analyzeCodeStartServer(m, t) ==
    IF t = EmptyText
    THEN [m EXCEPT !.text = t, !.diagnostics = <<>>, !.problemsCount = 0,
                   !.pc = "done"]
    ELSE [m EXCEPT !.text = t, !.diagnostics = <<>>, !.problemsCount = 0,
                   !.strings = removeInlineComments(t),
                   !.lcTable = <<>>, !.lc = 0, !.i = 0,
                   !.ram = <<>>, !.ramPushed = {<<0, MemorySize - 1>>},
                   !.ramLength = MemorySize, !.addressToLine = <<>>,
                   !.pc = "pass1"]

resolveSymbolsPass1Server(m) ==
    LET r == Pass1LineServer(m.strings[m.i + 1], m.lc, m.lcTable)
    IN  IF m.i < Len(m.strings) /\ r.ctl # "break"
        THEN [m EXCEPT !.i = @ + 1, !.lc = r.lc, !.lcTable = r.lcTable]
        ELSE [m EXCEPT !.i = 0, !.lc = 0, !.pc = "pass2"]

resolveSymbolsPass2Server(m) ==
    LET r == Pass2LineServer(m.strings[m.i + 1], m.i, m.lc, m.lcTable)
    IN  IF m.i < Len(m.strings) /\ r.ctl # "break"
        THEN [m EXCEPT
                !.i = @ + 1,
                !.lc = r.lc,
                !.ram = IF r.write THEN (m.lc :> r.cell) @@ @ ELSE @,
                !.ramLength = IF r.write THEN Max2(@, m.lc + 1) ELSE @,
                !.addressToLine = IF r.write THEN (m.lc :> (m.i + 1)) @@ @ ELSE @]
        ELSE [m EXCEPT !.i = 0, !.pc = "spell", !.internalDiagnostics = <<>>]

syntaxCheckingSourceServer(m) ==
    LET r == SyntaxLineServer(m.strings, m.i)
    IN  IF m.i < Len(m.strings) /\ HasBudget(m) /\ r.ctl = "throw" THEN Thrown(m)
        ELSE IF m.i < Len(m.strings) /\ HasBudget(m)
        THEN [Emit(m, r.diags) EXCEPT
                !.i = @ + 1,
                !.containsEND = (@ \/ r.end),
                !.containsHLT = (@ \/ r.hlt),
                !.pc = IF r.ctl = "break" THEN "missing" ELSE @]
        ELSE [m EXCEPT !.pc = "missing"]

syntaxCheckingMemoryServer(m) ==
    LET cell == RamGet(m.ram, m.ramPushed, m.i)
        inside == m.i # NaN /\ m.i < MemorySize
        r == SyntaxCellServer(cell, m.i, m.addressToLine)
    IN  IF inside /\ cell = Undefined THEN Thrown(m)
        ELSE IF inside /\ ~Includes(cell, END) /\ r.ctl = "throw" THEN Thrown(m)
        ELSE IF inside /\ ~Includes(cell, END)
        THEN [Emit(m, r.diags) EXCEPT
                !.i = IF cell = <<>> THEN NextWritten(m.ram, m.i) ELSE r.i]
        ELSE [Concat(m) EXCEPT !.i = 0, !.pc = "orgs", !.previousOrg = <<>>]

\* the memory scan of logicChecking; its end is the end of analyzeCode
logicCheckingMemoryServer(m) ==
    LET cell == RamGet(m.ram, m.ramPushed, m.i)
        inside == m.i < MemorySize /\ ~Includes(Trim(cell), END) /\ HasBudget(m)
        r == LogicCellServer(m.ram, m.ramPushed, m.i, m.addressToLine)
    IN  IF inside /\ r.ctl = "throw" THEN Thrown(m)
        ELSE IF inside
        THEN [Emit(m, r.diags) EXCEPT
                !.i = IF cell = <<>> THEN NextWritten(m.ram, m.i) ELSE @ + 1]
        ELSE [Concat(m) EXCEPT !.pc = "done"]

StepOfServer(m) ==
    CASE m.pc = "pass1" -> resolveSymbolsPass1Server(m)
      [] m.pc = "pass2" -> resolveSymbolsPass2Server(m)
      [] m.pc = "spell" -> spellChecking(m)
      [] m.pc = "syntax" -> syntaxCheckingSourceServer(m)
      [] m.pc = "missing" -> syntaxCheckingMissing(m)
      [] m.pc = "memory" -> syntaxCheckingMemoryServer(m)
      [] m.pc = "orgs" -> logicCheckingOrg(m)
      [] m.pc = "cells" -> logicCheckingMemoryServer(m)

RECURSIVE RunToEndServer(_)
RunToEndServer(m) == IF Running(m) THEN RunToEndServer(StepOfServer(m)) ELSE m

(***************************************************************************)
(* Completion.                                                             *)
(***************************************************************************)
\* the keywords array of suggestCodeCompletion, in its order
CompletionKeywords ==
    <<ORG, END, DEC, HEX,
      W("A","N","D"), W("A","D","D"), W("L","D","A"), W("S","T","A"),
      W("B","U","N"), W("B","S","A"), W("I","S","Z"),
      W("C","L","A"), W("C","L","E"), W("C","M","A"), W("C","M","E"),
      W("C","I","R"), W("C","I","L"), W("I","N","C"), W("S","P","A"),
      W("S","N","A"), W("S","Z","A"), W("S","Z","E"), HLT,
      W("I","N","P"), W("O","U","T"), W("S","K","I"), W("S","K","O"),
      W("I","O","N"), W("I","O","F"), IMA>>

\* what a line contributes to getLabels: the text before its first comma
LabelOfLine(line) == Replace(Split(Trim(line), COMMA)[1], COMMA, <<>>)

getLabels(lines) ==
    LET declaring(line) == Includes(Trim(line), COMMA)
        found == SelectSeq(lines, declaring)
    IN  [j \in 1..Len(found) |-> LabelOfLine(found[j])]

CompletionItem(label, kind) == [label |-> label, kind |-> kind]

\* suggestCodeCompletion on a text and a position: the list of items, or
\* "threw" when the position's line is not a line of the text
suggestCodeCompletion(t, line, character) ==
    LET row == At(t, line)
        str == At(Split(row, SP), 1)
        labels == getLabels(t)
        matches(label) == Includes(label, Trim(str))
        typed == Substring(row, 0, character)
        string == Trim(Slice(typed, IndexOf(typed, SP)))
        offered(keyword) == Includes(keyword, string)
        fromLabels == IF str # Undefined /\ Len(labels) > 0
                      THEN SelectSeq(labels, matches) ELSE <<>>
        fromKeywords == SelectSeq(CompletionKeywords, offered)
    IN  IF row = Undefined THEN [threw |-> TRUE, items |-> <<>>]
        ELSE [threw |-> FALSE,
              items |-> [j \in 1..Len(fromLabels) |->
                            CompletionItem(fromLabels[j], "Value")]
                        \o [j \in 1..Len(fromKeywords) |->
                              CompletionItem(fromKeywords[j], "Keyword")]]

(***************************************************************************)
(* The handlers of the server.                                             *)
(***************************************************************************)
\* the server before its first event: the module-level variables are not
\* assigned yet
InitServer ==
    /\ problemsCountLimit = UndefinedNumber
    /\ problemsCount = UndefinedNumber
    /\ ram = <<>>
    /\ ramLength = 0
    /\ ramPushed = {}
    /\ addressToLine = <<>>
    /\ duplicatesLabels = <<>>
    /\ unusedLabels = <<>>
    /\ invalidLabels = <<>>
    /\ text = EmptyText
    /\ strings = <<>>
    /\ lcTable = <<>>
    /\ lc = 0
    /\ i = 0
    /\ pc = "idle"
    /\ internalDiagnostics = <<>>
    /\ diagnostics = <<>>
    /\ containsEND = FALSE
    /\ containsHLT = FALSE
    /\ previousOrg = <<>>
    /\ returned = <<>>
    /\ ServerStarted

\* one analysis the running handler still has to make: the text to analyse,
\* the URI to publish for, and whether it is made by validateTextDocument
Job(uri, t, validate) == [uri |-> uri, text |-> t, validate |-> validate]

\* one job for each open document, in the order of documents.all()
JobsOf(docs, validate) ==
    [n \in 1..Len(docs) |-> Job(docs[n].k, docs[n].v, validate)]

\* the server waits for an event: no handler is running
Quiet == pc = "idle" /\ pending = <<>>

\* textDocument/didOpen: the document is stored and onDidChangeContent
\* calls validateTextDocument
DidOpenTextDocument ==
    /\ Quiet /\ events < MaxEvents
    /\ \E uri \in Uris : \E t \in ServerTexts :
          /\ ~MapHas(documents, uri)
          /\ documents' = MapSet(documents, uri, t)
          /\ pending' = <<Job(uri, t, TRUE)>>
    /\ events' = events + 1
    /\ UNCHANGED <<fields, locals, returned, published, fileText, globalSettings,
                   completion>>

\* textDocument/didChange: the document is updated and onDidChangeContent
\* calls validateTextDocument
DidChangeTextDocument ==
    /\ Quiet /\ events < MaxEvents
    /\ \E uri \in Uris : \E t \in ServerTexts :
          /\ MapHas(documents, uri)
          /\ t # MapGet(documents, uri, Undefined)
          /\ documents' = MapSet(documents, uri, t)
          /\ pending' = <<Job(uri, t, TRUE)>>
    /\ events' = events + 1
    /\ UNCHANGED <<fields, locals, returned, published, fileText, globalSettings,
                   completion>>

\* textDocument/didSave: the notification carries the text only when the
\* client includes it; change.text ?? "" is analysed
DidSaveTextDocument ==
    /\ Quiet /\ events < MaxEvents
    /\ \E uri \in Uris : \E saved \in {Undefined, MapGet(documents, uri, Undefined)} :
          /\ MapHas(documents, uri)
          /\ pending' = <<Job(uri, IF saved = Undefined THEN EmptyText ELSE saved,
                               FALSE)>>
    /\ problemsCountLimit' = globalSettings
    /\ events' = events + 1
    /\ UNCHANGED <<problemsCount, ram, ramLength, ramPushed, addressToLine,
                   duplicatesLabels, unusedLabels, invalidLabels, locals, returned,
                   documents, published, fileText, globalSettings, completion>>

\* workspace/didChangeWatchedFiles: every open document is analysed again
DidChangeWatchedFiles ==
    /\ Quiet /\ events < MaxEvents
    /\ pending' = JobsOf(documents, FALSE)
    /\ problemsCountLimit' = globalSettings
    /\ events' = events + 1
    /\ UNCHANGED <<problemsCount, ram, ramLength, ramPushed, addressToLine,
                   duplicatesLabels, unusedLabels, invalidLabels, locals, returned,
                   documents, published, fileText, globalSettings, completion>>

\* workspace/didChangeConfiguration without the configuration capability:
\* the global settings are replaced and every open document is validated
DidChangeConfiguration ==
    /\ Quiet /\ events < MaxEvents
    /\ \E limit \in ServerLimits : globalSettings' = limit
    /\ pending' = JobsOf(documents, TRUE)
    /\ events' = events + 1
    /\ UNCHANGED <<fields, locals, returned, documents, published, fileText,
                   completion>>

\* the handler starts its next analysis: validateTextDocument first caches
\* the document and the limit, then analyzeCode begins
StartAnalysis ==
    /\ pc = "idle" /\ pending # <<>>
    /\ fileText' = IF Head(pending).validate THEN Head(pending).uri ELSE fileText
    /\ \E m \in {analyzeCodeStartServer(
                    [Machine EXCEPT !.problemsCountLimit =
                        IF Head(pending).validate THEN globalSettings ELSE @],
                    Head(pending).text)} : Assign(m)
    /\ UNCHANGED <<returned, documents, published, globalSettings, completion,
                   events, pending>>

ResolvePass1StepServer ==
    /\ pending # <<>> /\ pc = "pass1"
    /\ \E m \in {resolveSymbolsPass1Server(Machine)} : Assign(m)
    /\ UNCHANGED <<returned, server>>

ResolvePass2StepServer ==
    /\ pending # <<>> /\ pc = "pass2"
    /\ \E m \in {resolveSymbolsPass2Server(Machine)} : Assign(m)
    /\ UNCHANGED <<returned, server>>

SpellCheckingStepServer ==
    /\ pending # <<>> /\ pc = "spell"
    /\ \E m \in {spellChecking(Machine)} : Assign(m)
    /\ UNCHANGED <<returned, server>>

SyntaxSourceStepServer ==
    /\ pending # <<>> /\ pc = "syntax"
    /\ \E m \in {syntaxCheckingSourceServer(Machine)} : Assign(m)
    /\ UNCHANGED <<returned, server>>

SyntaxMissingStepServer ==
    /\ pending # <<>> /\ pc = "missing"
    /\ \E m \in {syntaxCheckingMissing(Machine)} : Assign(m)
    /\ UNCHANGED <<returned, server>>

SyntaxMemoryStepServer ==
    /\ pending # <<>> /\ pc = "memory"
    /\ \E m \in {syntaxCheckingMemoryServer(Machine)} : Assign(m)
    /\ UNCHANGED <<returned, server>>

LogicOrgStepServer ==
    /\ pending # <<>> /\ pc = "orgs"
    /\ \E m \in {logicCheckingOrg(Machine)} : Assign(m)
    /\ UNCHANGED <<returned, server>>

LogicMemoryStepServer ==
    /\ pending # <<>> /\ pc = "cells"
    /\ \E m \in {logicCheckingMemoryServer(Machine)} : Assign(m)
    /\ UNCHANGED <<returned, server>>

\* analyzeCode has returned: the list is sent for the job's URI
SendDiagnostics ==
    /\ pending # <<>> /\ pc = "done"
    /\ published' = [published EXCEPT ![Head(pending).uri] = Sent(diagnostics)]
    /\ pending' = Tail(pending)
    /\ pc' = "idle"
    /\ UNCHANGED <<fields, text, strings, lcTable, lc, i, internalDiagnostics,
                   diagnostics, containsEND, containsHLT, previousOrg, returned,
                   documents, fileText, globalSettings, completion, events>>

\* analyzeCode has thrown inside an async function: nothing is sent
AnalysisRejected ==
    /\ pending # <<>> /\ pc = "threw"
    /\ pending' = Tail(pending)
    /\ pc' = "idle"
    /\ UNCHANGED <<fields, text, strings, lcTable, lc, i, internalDiagnostics,
                   diagnostics, containsEND, containsHLT, previousOrg, returned,
                   documents, published, fileText, globalSettings, completion,
                   events>>

\* textDocument/completion for an open document, at a position of its text
Completion ==
    /\ Quiet /\ events < MaxEvents
    /\ \E uri \in Uris :
          /\ MapHas(documents, uri)
          /\ \E line \in 0..(Len(MapGet(documents, uri, Undefined)) - 1) :
             \E character \in {0, Len(MapGet(documents, uri, Undefined)[line + 1])} :
                LET r == suggestCodeCompletion(MapGet(documents, fileText, Undefined),
                                               line, character)
                IN  completion' = [uri |-> uri, line |-> line, character |-> character,
                                   threw |-> r.threw, items |-> r.items]
    /\ events' = events + 1
    /\ UNCHANGED <<fields, locals, returned, documents, published, fileText,
                   globalSettings, pending>>

NextServer ==
    \/ DidOpenTextDocument
    \/ DidChangeTextDocument
    \/ DidSaveTextDocument
    \/ DidChangeWatchedFiles
    \/ DidChangeConfiguration
    \/ Completion
    \/ StartAnalysis
    \/ ResolvePass1StepServer
    \/ ResolvePass2StepServer
    \/ SpellCheckingStepServer
    \/ SyntaxSourceStepServer
    \/ SyntaxMissingStepServer
    \/ SyntaxMemoryStepServer
    \/ LogicOrgStepServer
    \/ LogicMemoryStepServer
    \/ SendDiagnostics
    \/ AnalysisRejected

SpecServer == InitServer /\ [][NextServer]_vars

(***************************************************************************)
(* Properties.                                                             *)
(***************************************************************************)
\* every diagnostic produced so far by the running call
Emitted == diagnostics \o internalDiagnostics

Budget == problemsCount < problemsCountLimit - 1

\* C1: for every input text, analyzeCode returns a list of diagnostics:
\* no call ends with an uncaught exception.
C1_NeverThrows == pc # "threw"

\* C2: nothing persists across runs: whatever was analysed before on the
\* same Analyzer, a call returns what a freshly constructed Analyzer with the
\* same limit returns for that text.
C2_NoStatePersists ==
    \A j \in 1..Len(returned) :
        returned[j] = analyzeCode(Constructed(problemsCountLimit), returned[j].text)

\* C3: analysing the same text twice in a row on one Analyzer gives the same
\* list of diagnostics both times.
C3_Idempotent ==
    \A j \in 2..Len(returned) :
        returned[j].text = returned[j - 1].text => returned[j] = returned[j - 1]

\* C4: once problemsCount has reached problemsCountLimit - 1, no step of the
\* spelling pass, of the syntax pass (source lines, the lines under END, the
\* two missing-instruction checks, the memory phase), of the logic ORG scan
\* or of the logic memory scan adds a diagnostic.
C4_BudgetStopsGatedPasses ==
    [][(pc \in {"spell", "syntax", "missing", "memory", "orgs", "cells"} /\ ~Budget)
          => Emitted' = Emitted]_vars

(***************************************************************************)
(* What a reader of the source text sees in a line, for the properties.    *)
(***************************************************************************)
Rest(line) == LET parts == Split(Trim(line), COMMA) IN Trim(parts[Len(parts)])

Toks(line) == Split(Rest(line), SP)

Mnemonic(line) == Toks(line)[1]

Operand(line) == IF Len(Toks(line)) >= 2 THEN Toks(line)[2] ELSE <<>>

Declares(line) == Includes(line, COMMA)

LabelOf(line) == Trim(Split(Trim(line), COMMA)[1])

IsEndLine(line) == Mnemonic(line) = END

NoEndLine(lines) == \A j \in 1..Len(lines) : ~IsEndLine(lines[j])

\* the 1-based positions of the lines above the first END line
BeforeEnd(lines) ==
    {j \in 1..Len(lines) : \A k \in 1..j : ~IsEndLine(lines[k])}

ReservedName(L) == Len(L) > 3 \/ L \in Keywords \cup {IMA}

ValidName(L) == Len(L) >= 1 /\ ~ReservedName(L)

Count(ds, Test(_)) == Cardinality({j \in 1..Len(ds) : Test(ds[j])})

\* C5: the label enumeration of the logic pass is not gated by the budget:
\* whatever the limit and problemsCount are, it appends exactly one Warning
\* per recorded duplicate label, one Information per label left in
\* unusedLabels (at its line) and one Error per invalid label (at its
\* line), and it leaves problemsCount unchanged.
C5_LabelEnumerationUngated ==
    [][pc = "labels" =>
        LET added == SubSeq(diagnostics', Len(Emitted) + 1, Len(diagnostics'))
            IsDup(d) == d.severity = "Warning" /\ d.message = "Duplicate label: "
            IsUnused(d) == d.severity = "Information" /\ d.message = "Unused label: "
            IsInvalid(d) == d.severity = "Error" /\ d.message = "Invalid label: "
        IN  /\ pc' = "done"
            /\ Len(diagnostics') >= Len(Emitted)
            /\ SubSeq(diagnostics', 1, Len(Emitted)) = Emitted
            /\ Len(added) = Len(duplicatesLabels) + Len(unusedLabels) + Len(invalidLabels)
            /\ Count(added, IsDup) = Len(duplicatesLabels)
            /\ Count(added, IsUnused) = Len(unusedLabels)
            /\ Count(added, IsInvalid) = Len(invalidLabels)
            /\ \A n \in 1..Len(duplicatesLabels) :
                  \E j \in 1..Len(added) :
                      IsDup(added[j]) /\ added[j].arg = duplicatesLabels[n].v[1]
            /\ \A n \in 1..Len(unusedLabels) :
                  \E j \in 1..Len(added) :
                      /\ IsUnused(added[j])
                      /\ added[j].arg = unusedLabels[n].k
                      /\ added[j].line = unusedLabels[n].v
            /\ \A n \in 1..Len(invalidLabels) :
                  \E j \in 1..Len(added) :
                      /\ IsInvalid(added[j])
                      /\ added[j].arg = invalidLabels[n].k
                      /\ added[j].line = invalidLabels[n].v
            /\ problemsCount' = problemsCount]_vars

\* a run with limit 1 that has returned a duplicate, an unused and an invalid label
C5_Witness ==
    /\ pc = "done"
    /\ problemsCountLimit = 1
    /\ Len(duplicatesLabels) >= 1 /\ Len(unusedLabels) >= 1 /\ Len(invalidLabels) >= 1
    /\ \E j \in 1..Len(diagnostics) : diagnostics[j].message = "Duplicate label: "
    /\ \E j \in 1..Len(diagnostics) : diagnostics[j].message = "Unused label: "
    /\ \E j \in 1..Len(diagnostics) : diagnostics[j].message = "Invalid label: "

IsMissingEnd(d) == d.message = "Missing END instruction."

MissingEndDiagnostics(ds) == SelectSeq(ds, IsMissingEnd)

\* C6 as stated: a returned analysis of a non-empty document with no END line holds an
\* Error "Missing END instruction." at the final line, and one of a document
\* with an END line holds none.
C6_MissingEndAlways ==
    (pc = "done" /\ text # EmptyText) =>
        IF NoEndLine(text)
        THEN \E j \in 1..Len(diagnostics) :
                /\ IsMissingEnd(diagnostics[j])
                /\ diagnostics[j].severity = "Error"
                /\ diagnostics[j].line = Len(text) - 1
        ELSE MissingEndDiagnostics(diagnostics) = <<>>

\* C6, amended: the empty text returns no diagnostic; for a document with no
\* END line the check after the source-line loop adds exactly one Error
\* "Missing END instruction." at the final line when problemsCount is below
\* problemsCountLimit - 1 at that point, and none otherwise; for a document
\* with an END line it adds none; no other step adds or removes one.
C6_MissingEndWithinBudget ==
    [][/\ (pc' = "done" /\ text' = EmptyText) => diagnostics' = <<>>
       /\ pc = "missing" =>
            MissingEndDiagnostics(Emitted') =
                IF NoEndLine(strings) /\ Budget
                THEN <<Diagnostic(Len(strings) - 1, 0, "Error",
                                  "Missing END instruction.", <<>>, 0)>>
                ELSE <<>>
       /\ pc \in {"memory", "orgs", "cells", "labels"} =>
            MissingEndDiagnostics(Emitted') = MissingEndDiagnostics(Emitted)]_vars

\* a returned run of a two-line document without END that reports it at line 1
C6_Witness ==
    /\ pc = "done"
    /\ Len(text) = 2
    /\ NoEndLine(text)
    /\ MissingEndDiagnostics(diagnostics) =
          <<Diagnostic(1, 0, "Error", "Missing END instruction.", <<>>, 0)>>

OrgAddress(line) == ParseInt(Trim(Split(Trim(line), ORG)[2]), 16)

IsOrgLine(line) == Includes(Trim(line), ORG) /\ OrgAddress(line) # NaN

\* the 0-based indexes of the ORG lines above idx with the address of line idx
EarlierOrgs(lines, idx) ==
    {j \in 0..(idx - 1) :
        /\ IsOrgLine(lines[idx + 1])
        /\ IsOrgLine(lines[j + 1])
        /\ OrgAddress(lines[j + 1]) = OrgAddress(lines[idx + 1])}

SetMin(S) == CHOOSE x \in S : \A y \in S : x <= y

SetMax(S) == CHOOSE x \in S : \A y \in S : x >= y

DuplicateOrg(idx, cited) ==
    Diagnostic(idx, 0, "Error", "ORG Instructions duplicate at line ", <<>>, cited)

C8_ReservedLabelsInvalid ==
    (pc \in {"pass2", "spell", "syntax", "missing", "memory", "orgs", "cells",
             "labels"}) =>
        \A j \in BeforeEnd(strings) :
            (Declares(strings[j]) /\ ReservedName(LabelOf(strings[j]))) =>
                LET L == LabelOf(strings[j])
                    at == MapGet(invalidLabels, L, UndefinedNumber)
                IN  /\ MapHas(invalidLabels, L)
                    /\ at + 1 \in BeforeEnd(strings)
                    /\ Declares(strings[at + 1])
                    /\ LabelOf(strings[at + 1]) = L
                    /\ ~MapHas(lcTable, L)

\* the MRI line at 0-based index idx names a valid label declared further down
ForwardReference(lines, idx) ==
    /\ idx + 1 \in BeforeEnd(lines)
    /\ Mnemonic(lines[idx + 1]) \in MRIKeywords
    /\ ValidName(Operand(lines[idx + 1]))
    /\ \E j \in BeforeEnd(lines) :
          j > idx + 1 /\ Declares(lines[j]) /\ LabelOf(lines[j]) = Operand(lines[idx + 1])

\* C9: when pass 2 loads an MRI line whose operand is a valid label declared
\* on a later line above END, the cell it writes is the mnemonic followed by
\* the address pass 1 gave the label (no UNK placeholder) and the label
\* leaves unusedLabels; it is not in unusedLabels when the run returns.
C9_ForwardReferencesResolve ==
    [][/\ (pc = "pass2" /\ i < Len(strings) /\ ForwardReference(strings, i)) =>
            LET line == strings[i + 1]
                L == Operand(line)
            IN  /\ MapHas(lcTable, L)
                /\ lc \in DOMAIN ram'
                /\ ram'[lc] = Mnemonic(line) \o SP \o MapGet(lcTable, L, Undefined)
                                \o (IF \E n \in 1..Len(Toks(line)) : Toks(line)[n] = IMA
                                    THEN SP \o IMA ELSE <<>>)
                /\ ~Includes(ram'[lc], UNK)
                /\ addressToLine'[lc] = i + 1
                /\ ~MapHas(unusedLabels', L)
       /\ (pc' = "done" /\ text' # EmptyText) =>
            \A idx \in 0..(Len(strings') - 1) :
                ForwardReference(strings', idx) =>
                    ~MapHas(unusedLabels', Operand(strings'[idx + 1]))]_vars

\* "LDA B" above "B, DEC 5": the run has returned, cell 0 holds "LDA 1"
C9_Witness ==
    /\ pc = "done"
    /\ Len(strings) >= 2
    /\ strings[1] = L_LDA_B /\ strings[2] = L_B_DEC_5
    /\ ForwardReference(strings, 0)
    /\ 0 \in DOMAIN ram /\ ram[0] = <<"L", "D", "A", " ", "1">>
    /\ ~MapHas(unusedLabels, <<"B">>)

UsedAsOperand(lines, L) ==
    \E k \in BeforeEnd(lines) :
        Mnemonic(lines[k]) \in MRIKeywords /\ Operand(lines[k]) = L

\* C10: in the list returned by a run on a fresh Analyzer, a valid label
\* declared above END has an "Unused label" Information, at a line that
\* declares it, exactly when no MRI line above END has it as operand; such
\* a label has exactly one.
C10_UnusedLabelReported ==
    (pc = "done" /\ text # EmptyText) =>
        \A j \in BeforeEnd(strings) :
            (Declares(strings[j]) /\ ValidName(LabelOf(strings[j]))) =>
                LET L == LabelOf(strings[j])
                    reports == {n \in 1..Len(diagnostics) :
                                  /\ diagnostics[n].message = "Unused label: "
                                  /\ diagnostics[n].arg = L}
                IN  IF UsedAsOperand(strings, L) THEN reports = {}
                    ELSE /\ Cardinality(reports) = 1
                         /\ \A n \in reports :
                              /\ diagnostics[n].severity = "Information"
                              /\ diagnostics[n].line + 1 \in BeforeEnd(strings)
                              /\ Declares(strings[diagnostics[n].line + 1])
                              /\ LabelOf(strings[diagnostics[n].line + 1]) = L

\* a returned run with a referenced label B (no report) and an unused label A (one report)
C10_Witness ==
    /\ pc = "done"
    /\ text = <<L_LDA_B, L_B_DEC_5, L_A_HLT>>
    /\ \E n \in 1..Len(diagnostics) :
          /\ diagnostics[n].message = "Unused label: "
          /\ diagnostics[n].arg = <<"A">>
          /\ diagnostics[n].line = 2
    /\ ~\E n \in 1..Len(diagnostics) :
          /\ diagnostics[n].message = "Unused label: "
          /\ diagnostics[n].arg = <<"B">>

\* C11: in the list returned by a run, every MRI line above END whose
\* operand is neither a label of the symbol table nor a valid address value
\* has a Warning "Unresolved label <operand>." at its own line.
C11_UnresolvedReported ==
    (pc = "done" /\ text # EmptyText) =>
        \A j \in BeforeEnd(strings) :
            (/\ Mnemonic(strings[j]) \in MRIKeywords
             /\ ~MapHas(lcTable, Operand(strings[j]))
             /\ ~isAValidAddressValue(Operand(strings[j]))) =>
                \E n \in 1..Len(diagnostics) :
                    diagnostics[n] = Diagnostic(j - 1, 0, "Warning", "Unresolved label ",
                                                Operand(strings[j]), 0)

\* an unlabelled line whose first word is ORG
IsOrgInstruction(line) == ~Declares(line) /\ Mnemonic(line) = ORG

HexDigits ==
    {"0", "1", "2", "3", "4", "5", "6", "7", "8", "9",
     "A", "B", "C", "D", "E", "F", "a", "b", "c", "d", "e", "f"}

ValidAddressOperand(op) ==
    /\ Len(op) >= 1
    /\ \A n \in 1..Len(op) : op[n] \in HexDigits
    /\ ParseInt(op, 16) \in 0..(MemorySize - 1)

\* C14: in pass 1 and in pass 2 alike, an ORG line sets the location counter
\* to its operand exactly when the operand is a valid address value (hex
\* digits only, 0..4095) and leaves it unchanged otherwise; it never
\* writes a cell.
C14_OrgValidatedInBothWalks ==
    [][(pc \in {"pass1", "pass2"} /\ i < Len(strings)
        /\ IsOrgInstruction(strings[i + 1])) =>
            /\ lc' = IF ValidAddressOperand(Operand(strings[i + 1]))
                     THEN ParseInt(Operand(strings[i + 1]), 16) ELSE lc
            /\ ram' = ram
            /\ addressToLine' = addressToLine]_vars

SpellingMessages == {"Invalid keyword: "}

LogicMessages ==
    {"ORG Instructions duplicate at line ",
     "The instruction address is pointing to an invalid memory address.",
     "The HLT instruction can't be reached",
     "Duplicate label: ", "Unused label: ", "Invalid label: "}

\* 1 for a diagnostic of spellChecking, 2 for syntaxChecking, 3 for logicChecking
PassOf(d) ==
    IF d.message \in SpellingMessages THEN 1
    ELSE IF d.message \in LogicMessages THEN 3 ELSE 2

\* C12: the returned list is the spelling list, then the syntax list, then
\* the logic list: no diagnostic of a later pass stands before one of an
\* earlier pass; and when the syntax pass and the logic pass start,
\* problemsCount counts every diagnostic the earlier passes have produced.
C12_PassesConcatenatedInOrder ==
    [][/\ pc' = "done" =>
            \A a, b \in 1..Len(diagnostics') :
                a < b => PassOf(diagnostics'[a]) <= PassOf(diagnostics'[b])
       /\ (pc' \in {"syntax", "orgs"} /\ pc' # pc) =>
            /\ internalDiagnostics' = <<>>
            /\ diagnostics' = Emitted
            /\ problemsCount' = Len(diagnostics')]_vars

\* a returned list with a spelling, a syntax and a logic diagnostic, in this order
C12_Witness ==
    /\ pc = "done"
    /\ \E a, b, c \in 1..Len(diagnostics) :
          /\ a < b /\ b < c
          /\ PassOf(diagnostics[a]) = 1
          /\ PassOf(diagnostics[b]) = 2
          /\ PassOf(diagnostics[c]) = 3

IsPrefix(p, s) == Len(p) <= Len(s) /\ SubSeq(s, 1, Len(p)) = p

CommentMarks == {"/", ";", "#"}

\* a blank line, or a line whose first visible character is a comment marker
BlankOrComment(line) ==
    Trim(line) = <<>> \/ Trim(line)[1] \in CommentMarks

HasMark(s, c) == \E k \in 1..Len(s) : s[k] = c

FirstOf(s, c) == SetMin({k \in 1..Len(s) : s[k] = c})

\* where the comment taken off a trimmed line starts: at its first "/" if it
\* has one, else at its first ";", else at its first "#"
SelectedMark(s) ==
    IF HasMark(s, "/") THEN FirstOf(s, "/")
    ELSE IF HasMark(s, ";") THEN FirstOf(s, ";")
    ELSE FirstOf(s, "#")

\* C13 as stated: removeInlineComments returns one entry per line; blank and
\* fully commented lines are unchanged; every other entry is a prefix of the
\* trimmed line, and ends just before the selected marker when there is one.
C13_PrefixOfTrimmedLine ==
    pc = "normalized" =>
        /\ Len(strings) = Len(text)
        /\ \A j \in 1..Len(text) :
              IF BlankOrComment(text[j]) THEN strings[j] = text[j]
              ELSE /\ IsPrefix(strings[j], Trim(text[j]))
                   /\ (\E c \in CommentMarks : HasMark(Trim(text[j]), c)) =>
                        strings[j] = SubSeq(Trim(text[j]), 1,
                                            SelectedMark(Trim(text[j])) - 1)

\* C13, amended: removeInlineComments returns one entry per line; blank and
\* fully commented lines, and lines without any comment marker, are returned
\* unchanged (with their leading and trailing white space); every other
\* entry is the prefix of the trimmed line that ends just before its first
\* "/" if it has one, else before its first ";", else before its first "#".
C13_IndexStableNormalizer ==
    pc = "normalized" =>
        /\ Len(strings) = Len(text)
        /\ \A j \in 1..Len(text) :
              IF \/ BlankOrComment(text[j])
                 \/ ~\E c \in CommentMarks : HasMark(Trim(text[j]), c)
              THEN strings[j] = text[j]
              ELSE strings[j] = SubSeq(Trim(text[j]), 1,
                                       SelectedMark(Trim(text[j])) - 1)

\* the normalised two-line text " A;" over " A;/": the first entry is cut at
\* its ";", the second at its "/" although a ";" stands before it
C13_Witness ==
    /\ pc = "normalized"
    /\ text = << <<" ", "A", ";">>, <<" ", "A", ";", "/">> >>
    /\ strings = << <<"A">>, <<"A", ";">> >>

\* a line of well-formed input: blank or comment; an unlabelled ORG with one
\* valid address operand; another unlabelled line (END included); or a
\* label, ", " and an instruction, where neither the label nor the
\* instruction is ORG or END
WellFormedLine(line) ==
    \/ BlankOrComment(line)
    \/ /\ ~Declares(line)
       /\ Mnemonic(line) = ORG
       /\ Len(Toks(line)) = 2
       /\ ValidAddressOperand(Operand(line))
    \/ /\ ~Declares(line)
       /\ Mnemonic(line) # ORG
    \/ /\ Declares(line)
       /\ LabelOf(line) \notin {<<>>, ORG, END}
       /\ ~HasMark(LabelOf(line), " ")
       /\ Rest(line) # <<>>
       /\ Mnemonic(line) \notin {ORG, END}
       /\ Trim(line) = LabelOf(line) \o COMMA \o SP \o Rest(line)

WellFormed(lines) == \A j \in 1..Len(lines) : WellFormedLine(lines[j])

\* the location counter of the resolver walk when it reaches line idx (0-based)
RECURSIVE ResolverLc(_, _)
ResolverLc(lines, idx) ==
    IF idx = 0 THEN 0
    ELSE Pass1Line(lines[idx], idx - 1, ResolverLc(lines, idx - 1),
                   <<>>, <<>>, <<>>, <<>>).lc

\* a line that takes a cell: not blank, not a comment, not ORG, not END
TakesCell(line) == ~BlankOrComment(line) /\ Mnemonic(line) \notin {ORG, END}

DecimalLiteral(line) == ParseInt(Operand(line), 10)

\* C18: when the source-line phase of the syntax pass handles a DEC line with
\* budget left, it adds one Warning "Invalid decimal value." at that line
\* exactly when the literal read in base 10 is outside -32768..32767 or is
\* not a number (missing, or not starting with a number); it adds nothing
\* otherwise.
C18_DecimalRange ==
    [][(pc = "syntax" /\ i < Len(strings) /\ Budget
        /\ ~BlankOrComment(strings[i + 1]) /\ Mnemonic(strings[i + 1]) = DEC) =>
            LET line == strings[i + 1]
                v == DecimalLiteral(line)
            IN  Emitted' = Emitted \o
                    (IF v = NaN \/ v < -32768 \/ v > 32767
                     THEN <<Diagnostic(i, IndexOf(line, Rest(line)), "Warning",
                                       "Invalid decimal value.", <<>>, 0)>>
                     ELSE <<>>)]_vars

\* "DEC 40000", "DEC 32767", "DEC -32768" returned with limit 100: line 0 has
\* the Warning, lines 1 and 2 have not
C18_Witness ==
    /\ pc = "done"
    /\ problemsCountLimit = 100
    /\ text = <<L_DEC_40000, L_DEC_32767, L_DEC_M32768>>
    /\ \A n \in 1..Len(diagnostics) :
          diagnostics[n].message = "Invalid decimal value." => diagnostics[n].line = 0
    /\ \E n \in 1..Len(diagnostics) :
          /\ diagnostics[n].message = "Invalid decimal value."
          /\ diagnostics[n].severity = "Warning"

\* C20: a pass-1 step over a line that declares a label advances the location
\* counter by one, whether the name is valid or not; for a valid name the
\* symbol table then holds the current location counter for it, and when the
\* name was already in the table, duplicatesLabels holds, under the current
\* location counter, the name with the address it had before.
C20_LabelLinesCounted ==
    [][(pc = "pass1" /\ i < Len(strings) /\ ~BlankOrComment(strings[i + 1])
        /\ Declares(strings[i + 1])) =>
            LET L == LabelOf(strings[i + 1])
            IN  /\ lc' = lc + 1
                /\ ValidName(L) =>
                      /\ MapGet(lcTable', L, Undefined) = NumToString(lc)
                      /\ MapHas(lcTable, L) =>
                            MapGet(duplicatesLabels', NumToString(lc), Undefined)
                                = <<L, MapGet(lcTable, L, Undefined)>>]_vars

\* C19: every run ends: no step of a run leaves the run in the state it was
\* in (the steps are deterministic, so a step that changes nothing would be
\* repeated forever); in particular the syntax pass's memory scan never puts
\* its cursor back on the cell it is scanning.
C19_EveryRunTerminates == Running(Machine) => StepOf(Machine) # Machine

\* the run of the server's analyzeCode on a text alone, with a limit
FullAnalysis(limit, t) ==
    RunToEndServer(analyzeCodeStartServer(Constructed(limit), t))

\* C16: after any sequence of open, change, save, watched-files and
\* configuration events, once the handlers have run, what the client was
\* last sent for an open document is the list the analysis returns for the
\* document's current text.
C16_PublishedIsCurrentAnalysis ==
    Quiet => \A n \in 1..Len(documents) :
        LET full == FullAnalysis(globalSettings, documents[n].v)
        IN  full.pc = "done" => published[documents[n].k] = Sent(full.diagnostics)

\* C17: the answer to a completion request for a document is the list of
\* candidates computed from that document's own current text at the
\* requested position.
C17_CompletionFromOwnText ==
    [][completion' # completion =>
          LET own == suggestCodeCompletion(
                         MapGet(documents, completion'.uri, Undefined),
                         completion'.line, completion'.character)
          IN  /\ ~completion'.threw
              /\ completion'.items = own.items]_vars


MemoryReference(line) == ~BlankOrComment(line) /\ Mnemonic(line) \in MRIKeywords

Indirect(line) == \E k \in 3..Len(Toks(line)) : Toks(line)[k] = IMA

\* the cell the materializer is to write for the memory-reference line at
\* 0-based index idx, given the symbol table
ReferenceCell(line, idx, table) ==
    LET op == Operand(line)
        target == IF MapHas(table, op) THEN MapGet(table, op, Undefined)
                  ELSE IF ValidAddressOperand(op) THEN NumToString(ParseInt(op, 16))
                  ELSE UNK \o <<"-">> \o op \o <<"|">> \o NumToString(idx + 1)
    IN  Mnemonic(line) \o SP \o target \o (IF Indirect(line) THEN SP \o IMA ELSE <<>>)

\* C21: in pass 2, a memory-reference line writes <mnemonic> <address of the
\* operand> when the operand is a known label (even when its name is also a
\* valid address value), <mnemonic> <decimal value of the operand read as
\* hex> when it is a valid address value, and <mnemonic> UNK-<op>|<1-based
\* line> otherwise, followed by " I" exactly when the line carries the
\* indirect marker; then the address-to-line entry is recorded and the
\* location counter grows by one.
C21_ReferenceCellWritten ==
    [][(pc = "pass2" /\ i < Len(strings) /\ MemoryReference(strings[i + 1])) =>
            /\ lc \in DOMAIN ram'
            /\ ram'[lc] = ReferenceCell(strings[i + 1], i, lcTable)
            /\ LineOfAddress(addressToLine', lc) = i + 1
            /\ lc' = lc + 1
            /\ pc' = "pass2"]_vars

\* a line referring to the label A, declared on a later line, has been
\* loaded as "LDA 1 I"
C21_Witness ==
    /\ pc = "spell"
    /\ strings = <<L_LDA_A_I, L_A_DEC_5>>
    /\ 0 \in DOMAIN ram /\ ram[0] = <<"L", "D", "A", " ", "1", " ", "I">>

Misspelt(line) == ~BlankOrComment(line) /\ Mnemonic(line) \notin Keywords

InvalidKeyword(d, idx, token) ==
    /\ d.severity = "Warning" /\ d.message = "Invalid keyword: "
    /\ d.arg = token /\ d.line = idx

\* C22: the spelling pass, walking the lines in order within the budget,
\* adds exactly one Warning "Invalid keyword: <token>" for a line that is
\* neither blank nor a comment and whose mnemonic token is not in the
\* vocabulary, adds nothing for any other line, and ends at the first line
\* whose token is END, so nothing is added for the lines under it.
C22_OneWarningPerMisspeltLine ==
    [][(pc = "spell" /\ i < Len(strings) /\ Budget) =>
          LET line == strings[i + 1]
          IN  /\ Misspelt(line) =>
                    /\ Len(Emitted') = Len(Emitted) + 1
                    /\ SubSeq(Emitted', 1, Len(Emitted)) = Emitted
                    /\ InvalidKeyword(Emitted'[Len(Emitted')], i, Mnemonic(line))
              /\ ~Misspelt(line) => Emitted' = Emitted
              /\ pc' = (IF ~BlankOrComment(line) /\ IsEndLine(line)
                        THEN "syntax" ELSE "spell")
              /\ i' = (IF pc' = "spell" THEN i + 1 ELSE 0)]_vars

\* the pass is over on END: of two misspelt lines around an END line and a
\* comment, only the first is reported
C22_Witness ==
    /\ pc = "syntax" /\ i = 0
    /\ problemsCountLimit = 100
    /\ strings = <<L_XYZ, L_END, L_XYZ>>
    /\ diagnostics = <<Diagnostic(0, 0, "Warning", "Invalid keyword: ", L_XYZ, 0)>>

Ignored(d) ==
    /\ d.severity = "Information"
    /\ d.message = "Instructions under END pseudo-instructions will be ignored"

\* C23: when the source-line phase of the syntax pass reaches the first END
\* line, it adds exactly one Information diagnostic for every later line
\* that is neither blank nor a whole-line comment, none for the blank and
\* the commented lines, and the phase is over: no later line gets an ORG,
\* DEC, HEX or IMA check.
C23_LinesUnderEndIgnored ==
    [][(pc = "syntax" /\ i < Len(strings) /\ Budget
        /\ ~BlankOrComment(strings[i + 1]) /\ IsEndLine(strings[i + 1])) =>
          LET new == SubSeq(Emitted', Len(Emitted) + 1, Len(Emitted'))
              under == (i + 2)..Len(strings)
          IN  /\ SubSeq(Emitted', 1, Len(Emitted)) = Emitted
              /\ \A k \in 1..Len(new) : Ignored(new[k]) /\ new[k].line + 1 \in under
              /\ \A j \in under :
                    Cardinality({k \in 1..Len(new) : new[k].line = j - 1})
                        = (IF BlankOrComment(strings[j]) THEN 0 ELSE 1)
              /\ pc' = "missing"]_vars

\* under END, a comment and an ORG line with an invalid operand: the ORG
\* line is reported as ignored and nothing else is said about it
C23_Witness ==
    /\ pc = "missing"
    /\ problemsCountLimit = 100
    /\ strings = <<L_END, L_SLASH_ORG_100, L_ORG_10G>>
    /\ Emitted = <<Diagnostic(2, 0, "Information",
                      "Instructions under END pseudo-instructions will be ignored",
                      <<>>, 0)>>

InRange16(v) == v # NaN /\ v >= -32768 /\ v <= 32767

\* a cell that holds a DEC or a HEX literal of 16 bits
LiteralCell(cell) ==
    \/ Mnemonic(cell) = DEC /\ InRange16(ParseInt(Operand(cell), 10))
    \/ /\ Mnemonic(cell) = HEX
       /\ \A n \in 1..Len(Operand(cell)) : Operand(cell)[n] \in HexDigits \cup {"-"}
       /\ InRange16(ParseInt(Operand(cell), 16))

LiteralValue(cell) ==
    ParseInt(Operand(cell), IF Mnemonic(cell) = DEC THEN 10 ELSE 16)

\* the target of a memory-reference cell holds a literal: the cell at the
\* operand's address or, with the indirect marker, the cell at the address
\* given by the literal held there
TargetIsLiteral(cell) ==
    LET direct == RamGet(ram, ramPushed, ParseInt(Operand(cell), 10))
    IN  IF ~Indirect(cell) THEN LiteralCell(direct)
        ELSE /\ LiteralCell(direct)
             /\ LiteralCell(RamGet(ram, ramPushed, LiteralValue(direct)))

InvalidTarget(d) ==
    /\ d.severity = "Warning"
    /\ d.message = "The instruction address is pointing to an invalid memory address."

\* C24: in the memory scan of the logic pass, within the budget, a
\* memory-reference cell gets the Warning "The instruction address is
\* pointing to an invalid memory address." exactly when its target cell does
\* not hold a valid DEC or HEX literal; a target that holds an instruction
\* (CLA, LDA 5) or nothing is reported.  Steps that end the call with an
\* exception are left to C1.
C24_InvalidTargetReported ==
    [][(pc = "cells" /\ i < MemorySize /\ Budget /\ pc' # "threw"
        /\ RamGet(ram, ramPushed, i) # Undefined
        /\ ~Includes(RamGet(ram, ramPushed, i), END)
        /\ MemoryReference(RamGet(ram, ramPushed, i))) =>
          IF TargetIsLiteral(RamGet(ram, ramPushed, i))
          THEN Emitted' = Emitted
          ELSE /\ Len(Emitted') = Len(Emitted) + 1
               /\ SubSeq(Emitted', 1, Len(Emitted)) = Emitted
               /\ InvalidTarget(Emitted'[Len(Emitted')])]_vars

Jumps == {W("B","U","N"), W("B","S","A")}

Contains(cell, words) == cell # Undefined /\ \E kw \in words : Includes(cell, kw)

Unreachable(d) ==
    /\ d.severity = "Warning"
    /\ d.message = "The HLT instruction can't be reached"

\* C25: in the memory scan of the logic pass, within the budget, an HLT cell
\* at address i gets the Warning "The HLT instruction can't be reached"
\* exactly when i >= 2, cell i-1 contains BUN or BSA and cell i-2 contains
\* none of ISZ, SPA, SNA, SZA, SZE; an HLT cell at address 0 or 1 never
\* gets it.
C25_UnreachableHltReported ==
    [][(pc = "cells" /\ i < MemorySize /\ Budget /\ pc' # "threw"
        /\ RamGet(ram, ramPushed, i) # Undefined
        /\ Mnemonic(RamGet(ram, ramPushed, i)) = HLT) =>
          IF /\ i >= 2
             /\ Contains(RamGet(ram, ramPushed, i - 1), Jumps)
             /\ ~Contains(RamGet(ram, ramPushed, i - 2), SkipClass)
          THEN /\ Len(Emitted') = Len(Emitted) + 1
               /\ SubSeq(Emitted', 1, Len(Emitted)) = Emitted
               /\ Unreachable(Emitted'[Len(Emitted')])
          ELSE Emitted' = Emitted]_vars

\* C26: after any sequence of analysis runs the memory image has exactly
\* 4096 cells and every cell written by the materializer has an address in
\* 0..4095: the location counter is never 4096 or more at a write.
C26_MemoryImageBounded ==
    pc \in {"done", "threw"} =>
        /\ ramLength = MemorySize
        /\ \A a \in DOMAIN ram : a \in 0..(MemorySize - 1)

Commented(line) == Len(line) >= 1 /\ line[1] \in CommentMarks

\* two texts that differ only in lines that are whole-line comments in both
SameButComments(a, b) ==
    /\ Len(a) = Len(b)
    /\ \A k \in 1..Len(a) : a[k] = b[k] \/ (Commented(a[k]) /\ Commented(b[k]))

\* C27: whole-line comments do not influence the analysis: for two texts
\* that differ only in the content of lines that start with a comment
\* marker in both, analyzeCode on fresh Analyzers returns the same list.
C27_CommentsDoNotMatter ==
    (pc \in {"done", "threw"} /\ Len(returned) = 1) =>
        \A t \in CommentTexts :
            SameButComments(text, t) =>
                LET other == analyzeCode(Constructed(problemsCountLimit), t)
                IN  /\ other.threw = returned[1].threw
                    /\ other.diagnostics = returned[1].diagnostics

\* C28: every diagnostic returned by analyzeCode on a fresh Analyzer is
\* positioned on a line of the document: its line L satisfies
\* 0 <= L < number of lines of the text; this includes the duplicate-label
\* Warnings and the invalid RRI/IO Errors.
C28_DiagnosticsOnDocumentLines ==
    \A j \in 1..Len(returned) :
        \A k \in 1..Len(returned[j].diagnostics) :
            returned[j].diagnostics[k].line \in 0..(Len(returned[j].text) - 1)

=============================================================================
